---- MODULE Spec2Model ----
(***************************************************************************)
(* Translation queue of Mutarjim Pro: the IndexedDB store (dbService), the *)
(* worker pool of useTranslationProcessor and the engine state of App.     *)
(*                                                                         *)
(* One action per continuation between two awaits of the source. A worker  *)
(* that awaits a store request waits in the queue of that object store:    *)
(* IndexedDB runs the transactions on one store in the order they were     *)
(* created. A worker that awaits translateHtml waits on the network,       *)
(* which answers in any order.                                             *)
(***************************************************************************)
EXTENDS Integers, FiniteSets, Sequences, Bags, TLC

\* ---------------------------------------------------------------- bounds
\* Segments of the imported book.
NumSegs == 2
\* Clicks on the play/pause button in one behaviour.
MaxToggles == 3
\* processQueue closures whose workers are alive at the same time.
MaxGens == 3
\* Quota (429) answers of the translator in one behaviour.
MaxQuota == 2
\* Page reloads in one behaviour.
MaxReloads == 1

\* ------------------------------------------------------ program constants
\* const CONCURRENCY = 5
CONCURRENCY == 5
\* if (segment.retryCount >= 3) status = SKIPPED
MaxRetries == 3

Gens == 1..MaxGens

\* ------------------------------------------------------------ the records
NoSeg == [id |-> 0, status |-> "NONE", retryCount |-> 0,
          translatedHtml |-> <<>>, error |-> FALSE]
NoProject == [present |-> FALSE, totalSegments |-> 0, translatedSegments |-> 0]
NoCall == [pc |-> "none"]
NoEdit == [n |-> 0, seg |-> NoSeg]
NoUpload == [view |-> "studio", pc |-> "none", n |-> 0]
NoBundle == [zip |-> FALSE, source |-> FALSE, projectJson |-> "none", segmentsJson |-> "none"]
NoEpub == [pc |-> "none"]
NoLogs == [system |-> <<>>, ai |-> <<>>]

VARIABLES
  appState,       \* React state appState of App
  rendered,       \* the appState the useEffect of the processor last ran for
  processingRef,  \* processingRef.current
  activeWorkers,  \* per processQueue closure: let activeWorkers
  isQuotaHit,     \* per processQueue closure: let isQuotaHit
  net,            \* bag of workers awaiting translateHtml
  segQ,           \* workers awaiting a request on store 'segments', oldest first
  projQ,          \* workers awaiting a request on store 'project', oldest first
  segs,           \* object store 'segments': id -> record
  project,        \* object store 'project', key 'current-project'
  toggles,        \* clicks on play/pause and on retry so far
  quotas,         \* quota answers so far
  attempts,       \* per segment: translateHtml calls made for it
  quotaSeg,       \* segments a quota error wrote back and no worker claimed since
  resumed,        \* those of quotaSeg at the last resume, while no pause or quota
                  \* error followed it
  reloads,        \* page reloads so far
  call,           \* the translateHtml call under test: its inputs, then its outcome
  edit,           \* handleSegmentChange: keystrokes so far, the record awaiting the debounce timer
  upload,         \* the view shown, handleFileUpload: how far it is, imports so far
  bundle,         \* the file handed to restoreBackup, while handleRestoreBackup runs
  epub,           \* the epubService call under test: its input, how far the walk is, its batches
  logs            \* App's systemLogs and aiLogs

vars == <<appState, rendered, processingRef, activeWorkers, isQuotaHit, net,
          segQ, projQ, segs, project, toggles, quotas, attempts, quotaSeg,
          resumed, reloads, call, edit, upload, bundle, epub, logs>>

\* ---------------------------------------------------------------- helpers
\* A suspended worker() call: its closure, the await it is at, its locals.
\* (out: how its translateHtml call ended, kept until the outcome is written.)
Worker(g, pc, seg, proj, cnt, out) ==
  [gen |-> g, pc |-> pc, seg |-> seg, proj |-> proj, cnt |-> cnt, out |-> out]

\* A worker between iterations or after the loop: no segment, no outcome.
Idle(g, pc, proj, cnt) == Worker(g, pc, NoSeg, proj, cnt, "none")

Done == Idle(0, "done", NoProject, 0)

One(w) == SetToBag({w})
Range(q) == {q[k] : k \in DOMAIN q}

\* Where a worker waits, by the await it is at.
SegPcs == {"claim", "putSeg", "count", "stats", "stats2", "stats3", "retry", "getAll",
           "editPut", "editCount", "impClearSegs", "impAddSegments", "impGetAll",
           "resClearSegs", "resAddSegments"}
ProjPcs == {"getProject", "putProject", "editGetProject", "editPutProject",
            "impClearProject", "impSaveProject", "impGetProject",
            "resClearProject", "resSaveProject"}

\* The waiting workers after w2 joined them (n, sq, pq: those waiting before).
Wait(n, sq, pq, w2) ==
  /\ net' = IF w2.pc = "translate" THEN n (+) One(w2) ELSE n
  /\ segQ' = IF w2.pc \in SegPcs THEN Append(sq, w2) ELSE sq
  /\ projQ' = IF w2.pc \in ProjPcs THEN Append(pq, w2) ELSE pq

LiveWorkers == BagToSet(net) \cup Range(segQ) \cup Range(projQ)

\* A count with a plausible fault: the progress count takes the segments
\* being translated in place of the translated ones.
countFromIndex_Translating(store, st) ==
  Cardinality({i \in DOMAIN store :
                 store[i].status = IF st = "TRANSLATED" THEN "TRANSLATING" ELSE st})

\* db.countFromIndex('segments', 'by-status', st)
countFromIndex(store, st) == Cardinality({i \in DOMAIN store : store[i].status = st})

\* db.getFromIndex('segments', 'by-status', st): the first record of the index,
\* which is ordered by status and then by primary key; 0 when there is none.
getFromIndex(store, st) ==
  LET hit == {i \in DOMAIN store : store[i].status = st}
  IN IF hit = {} THEN 0 ELSE CHOOSE i \in hit : \A j \in hit : i <= j

\* getPendingSegment with a plausible fault: when nothing is PENDING or FAILED
\* it falls back to a segment that is being translated.
getPendingSegment_AlsoTranslating(store) ==
  IF getFromIndex(store, "PENDING") # 0
    THEN getFromIndex(store, "PENDING")
    ELSE IF getFromIndex(store, "FAILED") # 0
           THEN getFromIndex(store, "FAILED")
           ELSE getFromIndex(store, "TRANSLATING")

\* getPendingSegment with a plausible fault: FAILED is looked up first.
getPendingSegment_FailedFirst(store) ==
  IF getFromIndex(store, "FAILED") # 0
    THEN getFromIndex(store, "FAILED")
    ELSE getFromIndex(store, "PENDING")

\* getPendingSegment with a plausible fault: the FAILED fallback is missing.
getPendingSegment_PendingOnly(store) == getFromIndex(store, "PENDING")

\* dbService.getPendingSegment: PENDING first, then FAILED.
getPendingSegment(store) ==
  IF getFromIndex(store, "PENDING") # 0
    THEN getFromIndex(store, "PENDING")
    ELSE getFromIndex(store, "FAILED")

\* The record getAndMarkPendingSegment returns for key i, marked TRANSLATING.
MarkTranslating(store, i) ==
  [id |-> i, status |-> "TRANSLATING", retryCount |-> store[i].retryCount,
   translatedHtml |-> store[i].translatedHtml, error |-> store[i].error]

\* The value db.put('segments', segment) stores under segment.id.
Stored(seg) ==
  [status |-> seg.status, retryCount |-> seg.retryCount,
   translatedHtml |-> seg.translatedHtml, error |-> seg.error]

\* Copies in bag b of the elements of set S.
RECURSIVE BagCount(_, _)
BagCount(b, S) ==
  IF S = {} THEN 0
  ELSE LET w == CHOOSE x \in S : TRUE
       IN CopiesIn(w, b) + BagCount(b, S \ {w})

\* Workers that hold segment i: from the claim to the write of its outcome.
Holders(i) ==
  BagCount(net, {w \in BagToSet(net) : w.seg.id = i})
  + Cardinality({k \in DOMAIN segQ : segQ[k].pc = "putSeg" /\ segQ[k].seg.id = i})

\* translateHtml calls in flight.
InFlight == BagCardinality(net)

\* A closure slot no worker of which is left.
FreeGen(g) == activeWorkers[g] = 0 /\ \A w \in LiveWorkers : w.gen # g

\* -------------------------------------------------------- translateHtml
\* Markup is a sequence of characters. "p" and "b" stand for the word
\* characters (\w), " " for white space; the code fence markers (three
\* backquotes and html, three backquotes) count as one character each.
MaxHtmlLen == 4

WordChars == {"p", "b"}
HtmlChars == {"<", "/"} \cup WordChars
TextChars == HtmlChars \cup {" ", "FENCE_HTML", "FENCE"}
Strings(S, n) == UNION {[1..k -> S] : k \in 0..n}

\* String.prototype.trim.
RECURSIVE trimStart(_)
trimStart(s) == IF s # <<>> /\ Head(s) = " " THEN trimStart(Tail(s)) ELSE s

RECURSIVE trimEnd(_)
trimEnd(s) ==
  IF s # <<>> /\ s[Len(s)] = " " THEN trimEnd(SubSeq(s, 1, Len(s) - 1)) ELSE s

trim(s) == trimEnd(trimStart(s))

\* The cleanup of the answer: a leading fence marker with html and a
\* trailing fence marker are removed, then trim().
cleanHtml(translatedText) ==
  LET a == IF translatedText # <<>> /\ Head(translatedText) = "FENCE_HTML"
             THEN Tail(translatedText) ELSE translatedText
      b == IF a # <<>> /\ a[Len(a)] = "FENCE" THEN SubSeq(a, 1, Len(a) - 1) ELSE a
  IN trim(b)

\* The number of word characters of str from position i on, up to the first
\* other character: what \w+ takes there.
RECURSIVE WordRun(_, _)
WordRun(str, i) ==
  IF i <= Len(str) /\ str[i] \in WordChars THEN 1 + WordRun(str, i + 1) ELSE 0

\* str.match(/<\/?\w+/g) from position i on: the matches, left to right.
RECURSIVE match(_, _)
match(str, i) ==
  IF i > Len(str) THEN <<>>
  ELSE IF str[i] # "<" THEN match(str, i + 1)
  ELSE LET j == IF i < Len(str) /\ str[i + 1] = "/" THEN i + 2 ELSE i + 1
           n == WordRun(str, j)
       IN IF n > 0
            THEN <<SubSeq(str, i, j + n - 1)>> \o match(str, j + n)
            ELSE match(str, i + 1)

\* The UTF-16 code unit of a character of a tag token.
CodeUnit(c) == CASE c = "/" -> 47 [] c = "<" -> 60 [] c = "b" -> 98 [] c = "p" -> 112

\* a comes before b in the order of Array.prototype.sort without a compare
\* function (by code units).
RECURSIVE Before(_, _)
Before(a, b) ==
  IF a = <<>> THEN b # <<>>
  ELSE IF b = <<>> THEN FALSE
  ELSE IF Head(a) = Head(b) THEN Before(Tail(a), Tail(b))
  ELSE CodeUnit(Head(a)) < CodeUnit(Head(b))

RECURSIVE Insert(_, _)
Insert(x, s) ==
  IF s = <<>> THEN <<x>>
  ELSE IF Before(Head(s), x) THEN <<Head(s)>> \o Insert(x, Tail(s))
  ELSE <<x>> \o s

RECURSIVE sort(_)
sort(s) == IF s = <<>> THEN <<>> ELSE Insert(Head(s), sort(Tail(s)))

getTags(str) == sort(match(str, 1))

\* An integrity check that compares the number of tags only.
validateIntegrity_CountOnly(original, translated) ==
  Len(getTags(original)) = Len(getTags(translated))

\* geminiService.validateIntegrity.
validateIntegrity(original, translated) ==
  LET originalTags == getTags(original)
      translatedTags == getTags(translated)
  IN IF Len(originalTags) # Len(translatedTags) THEN FALSE
     ELSE \A k \in 1..Len(originalTags) : originalTags[k] = translatedTags[k]

EmptyResponse == "Empty response from AI"
IntegrityMismatch == "Integrity Check Failed: Tag mismatch detected."

\* geminiService.translateHtml once the model answered with text: the value
\* returned (ok) or the error thrown.
translateHtml(html, text) ==
  LET translatedText == trim(text) IN
  IF translatedText = <<>>
    THEN [ok |-> FALSE, value |-> <<>>, error |-> EmptyResponse]
    ELSE IF ~validateIntegrity(html, cleanHtml(translatedText))
      THEN [ok |-> FALSE, value |-> <<>>, error |-> IntegrityMismatch]
      ELSE [ok |-> TRUE, value |-> cleanHtml(translatedText), error |-> ""]

\* Segment.originalHtml of the segment with key i, as the import stored it:
\* an element with an odd key, another element with an even key.
originalHtml(i) ==
  IF i % 2 = 1 THEN <<"<", "p", " ", "<", "/", "p">>
               ELSE <<"<", "b", " ", "<", "/", "b">>

\* The text the model answers for segment i when the call succeeds: inside a
\* code fence, the element with white space around it.
Answer(i) == <<"FENCE_HTML", " ">> \o originalHtml(i) \o <<" ", "FENCE">>

\* What translateHtml returns for these answers, by the parity of the key.
Translations == [k \in {0, 1} |-> translateHtml(originalHtml(k), Answer(k)).value]

\* ------------------------------------------------------------------- Init
\* The store after an import (all PENDING, translated count 0) and the
\* engine after loadProject: IDLE, effect run once for IDLE.
InitStore(n) ==
  /\ segs = [i \in 1..n |-> [status |-> "PENDING", retryCount |-> 0,
                              translatedHtml |-> <<>>, error |-> FALSE]]
  /\ project = [present |-> TRUE, totalSegments |-> n, translatedSegments |-> 0]
  /\ attempts = [i \in 1..n |-> 0]

InitEngine ==
  /\ appState = "IDLE"
  /\ rendered = "IDLE"
  /\ processingRef = FALSE
  /\ activeWorkers = [g \in Gens |-> 0]
  /\ isQuotaHit = [g \in Gens |-> FALSE]
  /\ net = EmptyBag
  /\ segQ = <<>>
  /\ projQ = <<>>
  /\ toggles = 0
  /\ quotas = 0
  /\ quotaSeg = {}
  /\ resumed = {}
  /\ reloads = 0
  /\ call = NoCall
  /\ edit = NoEdit
  /\ upload = NoUpload
  /\ bundle = NoBundle
  /\ epub = NoEpub
  /\ logs = NoLogs

Init == InitStore(NumSegs) /\ InitEngine

\* -------------------------------------------------------------- the user
\* togglePlayPause: setAppState(curr => curr === TRANSLATING ? PAUSED : TRANSLATING).
\* The button is disabled in COMPLETED; React runs pending effects before it
\* handles the next click.
Click ==
  /\ rendered = appState
  /\ appState # "COMPLETED"
  /\ appState = "TRANSLATING" \/ \E g \in Gens : FreeGen(g)
  /\ appState' = IF appState = "TRANSLATING" THEN "PAUSED" ELSE "TRANSLATING"
  /\ toggles' = toggles + 1
  /\ resumed' = IF appState \in {"PAUSED", "QUOTA_PAUSED"} THEN quotaSeg ELSE {}
  /\ UNCHANGED <<rendered, processingRef, activeWorkers, isQuotaHit, net, segQ,
                 projQ, segs, project, quotas, attempts, quotaSeg, reloads, call, edit, upload, bundle, epub, logs>>

togglePlayPause == toggles < MaxToggles /\ Click

\* The requests the CONCURRENCY workers of a new closure g leave on 'segments':
\* each ran activeWorkers++, the loop test and the call of
\* getAndMarkPendingSegment.
Started(g) == [k \in 1..CONCURRENCY |-> Idle(g, "claim", NoProject, 0)]

\* processQueue: returns at once when processingRef.current is set; else sets
\* it and starts the workers of a new closure.
processQueue ==
  IF processingRef
    THEN UNCHANGED <<processingRef, activeWorkers, isQuotaHit, segQ>>
    ELSE \E g \in Gens :
           /\ FreeGen(g)
           /\ \A h \in Gens : FreeGen(h) => g <= h
           /\ processingRef' = TRUE
           /\ activeWorkers' = [activeWorkers EXCEPT ![g] = Len(Started(g))]
           /\ isQuotaHit' = [isQuotaHit EXCEPT ![g] = FALSE]
           /\ segQ' = segQ \o Started(g)

\* useEffect(..., [appState, ...]): runs after a render in which appState changed.
Effect ==
  /\ rendered # appState
  /\ rendered' = appState
  /\ IF appState = "TRANSLATING"
       THEN processQueue
       ELSE /\ processingRef' = FALSE
            /\ UNCHANGED <<activeWorkers, isQuotaHit, segQ>>
  /\ UNCHANGED <<appState, net, projQ, segs, project, toggles, quotas, attempts,
                 quotaSeg, resumed, reloads, call, edit, upload, bundle, epub, logs>>

\* ------------------------------------------------------------ the workers
\* while (processingRef.current && !isQuotaHit)
LoopTest(g) == processingRef /\ ~isQuotaHit[g]

\* activeWorkers-- leaves 0: the worker is the last of its closure.
LastOut(g) == activeWorkers[g] - 1 = 0

\* The code after the loop: activeWorkers--; the last worker of its closure
\* clears processingRef.current.
ExitVars(w) ==
  /\ activeWorkers' = [activeWorkers EXCEPT ![w.gen] = @ - 1]
  /\ processingRef' = IF LastOut(w.gen) THEN FALSE ELSE processingRef
  /\ isQuotaHit' = IF LastOut(w.gen) /\ isQuotaHit[w.gen]
                     THEN [isQuotaHit EXCEPT ![w.gen] = FALSE]
                     ELSE isQuotaHit

\* ... and, unless its closure saw a quota error, awaits getStats.
ExitRecord(w) ==
  IF LastOut(w.gen) /\ ~isQuotaHit[w.gen]
    THEN Idle(w.gen, "stats", NoProject, 0)
    ELSE Done

\* The end of an iteration: the loop test, then the next claim or the exit.
ContinueVars(w) ==
  IF LoopTest(w.gen)
    THEN UNCHANGED <<processingRef, activeWorkers, isQuotaHit>>
    ELSE ExitVars(w)

ContinueRecord(w) ==
  IF LoopTest(w.gen)
    THEN Idle(w.gen, "claim", NoProject, 0)
    ELSE ExitRecord(w)

\* dbService.getAndMarkPendingSegment, the store after it: in one readwrite
\* transaction the segment getPendingSegment selects is marked TRANSLATING.
getAndMarkPendingSegment(store) ==
  LET i == getPendingSegment(store)
  IN IF i = 0 THEN store ELSE [store EXCEPT ![i].status = "TRANSLATING"]

\* const segment = await dbService.getAndMarkPendingSegment(); if (!segment) break;
Claim ==
  /\ segQ # <<>>
  /\ Head(segQ).pc = "claim"
  /\ LET w == Head(segQ)
         i == getPendingSegment(segs)
     IN IF i = 0
          THEN /\ ExitVars(w)
               /\ Wait(net, Tail(segQ), projQ, ExitRecord(w))
               /\ UNCHANGED <<segs, attempts, quotaSeg, resumed>>
          ELSE /\ segs' = getAndMarkPendingSegment(segs)
               /\ Wait(net, Tail(segQ), projQ,
                       Worker(w.gen, "translate", MarkTranslating(segs, i),
                              NoProject, 0, "none"))
               /\ attempts' = [attempts EXCEPT ![i] = @ + 1]
               /\ quotaSeg' = quotaSeg \ {i}
               /\ resumed' = resumed \ {i}
               /\ UNCHANGED <<processingRef, activeWorkers, isQuotaHit>>
  /\ UNCHANGED <<appState, rendered, project, toggles, quotas, reloads, call, edit, upload, bundle, epub, logs>>

\* segment.translatedHtml = translatedHtml; status = TRANSLATED; error = undefined
Translated(seg) ==
  [seg EXCEPT !.translatedHtml = Translations[seg.id % 2],
              !.status = "TRANSLATED", !.error = FALSE]

\* Failed with a plausible fault: > in place of >= in the SKIPPED test.
Failed_SkipsLate(seg) ==
  [seg EXCEPT !.retryCount = seg.retryCount + 1,
              !.error = TRUE,
              !.status = IF seg.retryCount + 1 > MaxRetries
                           THEN "SKIPPED" ELSE "FAILED"]

\* status = FAILED; error = err.message; retryCount + 1; SKIPPED at 3 or more
Failed(seg) ==
  [seg EXCEPT !.retryCount = seg.retryCount + 1,
              !.error = TRUE,
              !.status = IF seg.retryCount + 1 >= MaxRetries
                           THEN "SKIPPED" ELSE "FAILED"]

\* The quota branch with a plausible fault: it also clears the retry count.
QuotaReverted_ClearsRetries(seg) == [seg EXCEPT !.status = "PENDING", !.retryCount = 0]

\* segment.status = PENDING (the quota branch)
QuotaReverted(seg) == [seg EXCEPT !.status = "PENDING"]

\* translateHtml resolves: the worker sets the outcome in its copy and calls
\* updateSegment.
TranslateOk ==
  \E w \in BagToSet(net) :
    /\ Wait(net (-) One(w), segQ, projQ,
            Worker(w.gen, "putSeg", Translated(w.seg), NoProject, 0, "ok"))
    /\ UNCHANGED <<appState, rendered, processingRef, activeWorkers, isQuotaHit,
                   segs, project, toggles, quotas, attempts, quotaSeg, resumed, reloads, call, edit, upload, bundle, epub, logs>>

\* translateHtml rejects with an error that is not a 429.
TranslateFail ==
  \E w \in BagToSet(net) :
    /\ Wait(net (-) One(w), segQ, projQ,
            Worker(w.gen, "putSeg", Failed(w.seg), NoProject, 0, "fail"))
    /\ UNCHANGED <<appState, rendered, processingRef, activeWorkers, isQuotaHit,
                   segs, project, toggles, quotas, attempts, quotaSeg, resumed, reloads, call, edit, upload, bundle, epub, logs>>

\* The engine state after the quota branch of a worker of closure g:
\* if (!isQuotaHit) { isQuotaHit = true; setAppState(QUOTA_PAUSED) }
QuotaAppState(g) == IF ~isQuotaHit[g] THEN "QUOTA_PAUSED" ELSE appState

\* translateHtml rejects with a 429 for worker w: the worker sets
\* QUOTA_PAUSED as above and writes its segment back as PENDING.
Quota(w) ==
  /\ quotas' = quotas + 1
  /\ appState' = QuotaAppState(w.gen)
  /\ isQuotaHit' = [isQuotaHit EXCEPT ![w.gen] = TRUE]
  /\ Wait(net (-) One(w), segQ, projQ,
          Worker(w.gen, "putSeg", QuotaReverted(w.seg), NoProject, 0, "quota"))
  /\ resumed' = {}
  /\ UNCHANGED <<rendered, processingRef, activeWorkers, segs, project, toggles,
                 attempts, quotaSeg, reloads, call, edit, upload, bundle, epub, logs>>

TranslateQuota ==
  /\ quotas < MaxQuota
  /\ \E w \in BagToSet(net) : Quota(w)

\* db.put('segments', segment): the record replaces, or becomes, the one of its key.
put(store, seg) ==
  [i \in DOMAIN store \cup {seg.id} |-> IF i = seg.id THEN Stored(seg) ELSE store[i]]

\* updateSegment, first store step: the put. A TRANSLATED segment goes on to
\* the project update; the quota branch breaks out of the loop; a failure
\* ends the iteration.
PutSeg ==
  /\ segQ # <<>>
  /\ Head(segQ).pc = "putSeg"
  /\ LET w == Head(segQ)
     IN /\ segs' = put(segs, w.seg)
        /\ quotaSeg' = IF w.seg.status = "PENDING" THEN quotaSeg \cup {w.seg.id}
                                                   ELSE quotaSeg
        /\ IF w.seg.status = "TRANSLATED"
             THEN /\ Wait(net, Tail(segQ), projQ,
                          Idle(w.gen, "getProject", NoProject, 0))
                  /\ UNCHANGED <<processingRef, activeWorkers, isQuotaHit>>
             ELSE IF w.seg.status = "PENDING"
                    THEN /\ ExitVars(w)
                         /\ Wait(net, Tail(segQ), projQ, ExitRecord(w))
                    ELSE /\ ContinueVars(w)
                         /\ Wait(net, Tail(segQ), projQ, ContinueRecord(w))
  /\ UNCHANGED <<appState, rendered, project, toggles, quotas, attempts, resumed,
                 reloads, call, edit, upload, bundle, epub, logs>>

\* updateSegment: const project = await this.getProject(); if (project) ...
GetProject ==
  /\ projQ # <<>>
  /\ Head(projQ).pc = "getProject"
  /\ LET w == Head(projQ)
     IN IF project.present
          THEN /\ Wait(net, segQ, Tail(projQ),
                       Idle(w.gen, "count", project, 0))
               /\ UNCHANGED <<processingRef, activeWorkers, isQuotaHit>>
          ELSE /\ ContinueVars(w)
               /\ Wait(net, segQ, Tail(projQ), ContinueRecord(w))
  /\ UNCHANGED <<appState, rendered, segs, project, toggles, quotas, attempts,
                 quotaSeg, resumed, reloads, call, edit, upload, bundle, epub, logs>>

\* updateSegment: const count = await db.countFromIndex(.., TRANSLATED);
\* project.translatedSegments = count
Count ==
  /\ segQ # <<>>
  /\ Head(segQ).pc = "count"
  /\ LET w == Head(segQ)
     IN Wait(net, Tail(segQ), projQ,
             Idle(w.gen, "putProject", [w.proj EXCEPT !.translatedSegments =
                                      countFromIndex(segs, "TRANSLATED")], 0))
  /\ UNCHANGED <<appState, rendered, processingRef, activeWorkers, isQuotaHit,
                 segs, project, toggles, quotas, attempts, quotaSeg, resumed, reloads, call, edit, upload, bundle, epub, logs>>

\* updateSegment: await db.put('project', project, PROJECT_KEY); the iteration ends.
PutProject ==
  /\ projQ # <<>>
  /\ Head(projQ).pc = "putProject"
  /\ LET w == Head(projQ)
     IN /\ project' = w.proj
        /\ ContinueVars(w)
        /\ Wait(net, segQ, Tail(projQ), ContinueRecord(w))
  /\ UNCHANGED <<appState, rendered, segs, toggles, quotas, attempts, quotaSeg, resumed,
                 reloads, call, edit, upload, bundle, epub, logs>>

\* getStats, first request: const total = await db.count('segments')
StatsTotal ==
  /\ segQ # <<>>
  /\ Head(segQ).pc = "stats"
  /\ LET w == Head(segQ)
     IN Wait(net, Tail(segQ), projQ,
             Idle(w.gen, "stats2", NoProject, Cardinality(DOMAIN segs)))
  /\ UNCHANGED <<appState, rendered, processingRef, activeWorkers, isQuotaHit,
                 segs, project, toggles, quotas, attempts, quotaSeg, resumed, reloads, call, edit, upload, bundle, epub, logs>>

\* getStats, second request: const translated = await db.countFromIndex(.., TRANSLATED)
StatsTranslated ==
  /\ segQ # <<>>
  /\ Head(segQ).pc = "stats2"
  /\ LET w == Head(segQ)
     IN Wait(net, Tail(segQ), projQ,
             Idle(w.gen, "stats3",
                  [NoProject EXCEPT !.totalSegments = w.cnt,
                                    !.translatedSegments = countFromIndex(segs, "TRANSLATED")],
                  0))
  /\ UNCHANGED <<appState, rendered, processingRef, activeWorkers, isQuotaHit,
                 segs, project, toggles, quotas, attempts, quotaSeg, resumed, reloads, call, edit, upload, bundle, epub, logs>>

\* The engine state the last worker sets from the stats.
StatsAppState(total, translated) ==
  IF translated = total /\ total > 0 THEN "COMPLETED" ELSE "IDLE"

\* getStats, third request (the FAILED count), and the setAppState that
\* follows its return.
StatsDone ==
  /\ segQ # <<>>
  /\ Head(segQ).pc = "stats3"
  /\ appState' = StatsAppState(Head(segQ).proj.totalSegments,
                               Head(segQ).proj.translatedSegments)
  /\ Wait(net, Tail(segQ), projQ, Done)
  /\ UNCHANGED <<rendered, processingRef, activeWorkers, isQuotaHit, segs,
                 project, toggles, quotas, attempts, quotaSeg, resumed, reloads, call, edit, upload, bundle, epub, logs>>

WorkerStep ==
  \/ Claim
  \/ TranslateOk
  \/ TranslateFail
  \/ TranslateQuota
  \/ PutSeg
  \/ GetProject
  \/ Count
  \/ PutProject
  \/ StatsTotal
  \/ StatsTranslated
  \/ StatsDone

\* ------------------------------------------------------------ the reload
\* loadProject: the engine state set from the persisted project record.
loadProject(proj) ==
  IF proj.present /\ proj.translatedSegments = proj.totalSegments
                  /\ proj.totalSegments > 0
    THEN "COMPLETED"
    ELSE "IDLE"

\* The page is reloaded: every worker and every request not yet served is
\* gone, the stores are as they were, App mounts again (appState IDLE, the
\* effect runs for it) and loadProject sets the engine state.
Reload ==
  /\ reloads < MaxReloads
  /\ reloads' = reloads + 1
  /\ appState' = loadProject(project)
  /\ rendered' = "IDLE"
  /\ processingRef' = FALSE
  /\ activeWorkers' = [g \in Gens |-> 0]
  /\ isQuotaHit' = [g \in Gens |-> FALSE]
  /\ net' = EmptyBag
  /\ segQ' = <<>>
  /\ projQ' = <<>>
  /\ resumed' = {}
  /\ edit' = [edit EXCEPT !.seg = NoSeg]
  /\ UNCHANGED <<segs, project, toggles, quotas, attempts, quotaSeg, call, upload, bundle, epub, logs>>

Next ==
  \/ togglePlayPause
  \/ Effect
  \/ WorkerStep

Spec == Init /\ [][Next]_vars

\* ================================================================ claims

\* C1: at no time do two workers hold the same segment: a segment a worker
\* has claimed is held by that worker alone until its outcome is written.
C1_ExclusiveClaim == \A i \in DOMAIN segs : Holders(i) <= 1

\* C1 witness: two workers hold two different segments at the same time.
C1_Witness ==
  \E i, j \in DOMAIN segs : i # j /\ Holders(i) = 1 /\ Holders(j) = 1

\* C2: in every state of the store the project record's translatedSegments
\* is the number of TRANSLATED segments.
C2_CountMatches ==
  project.present =>
    project.translatedSegments = countFromIndex(segs, "TRANSLATED")

\* A book of one segment more than the pool size, and a translator that
\* always answers with a translation: what the pool bound is checked under.
InitPool == InitStore(CONCURRENCY + 1) /\ InitEngine

NextPool ==
  \/ togglePlayPause
  \/ Effect
  \/ Claim
  \/ TranslateOk
  \/ PutSeg
  \/ GetProject
  \/ Count
  \/ PutProject
  \/ StatsTotal
  \/ StatsTranslated
  \/ StatsDone

SpecPool == InitPool /\ [][NextPool]_vars

\* C3: at most CONCURRENCY translateHtml calls are in flight at any time.
C3_PoolBound == InFlight <= CONCURRENCY

\* The step is the store write of the outcome, ended as `out`, of the worker
\* that holds segment i.
OutcomeWrite(i, out) ==
  /\ PutSeg
  /\ Head(segQ).out = out
  /\ Head(segQ).seg.id = i

\* C4: the write of a non-quota failure raises the segment's retryCount by
\* exactly 1, makes its status SKIPPED if the new retryCount is 3 or more and
\* FAILED otherwise, and leaves its translatedHtml as it was.
C4_FailOutcome ==
  [][\A i \in DOMAIN segs :
       OutcomeWrite(i, "fail") =>
         /\ segs'[i].retryCount = segs[i].retryCount + 1
         /\ segs'[i].status = IF segs'[i].retryCount >= 3 THEN "SKIPPED" ELSE "FAILED"
         /\ segs'[i].translatedHtml = segs[i].translatedHtml]_vars

\* C4 witness: failures were written on both branches: one segment is FAILED
\* after its first failure, another SKIPPED after its third.
C4_Witness ==
  \E i, j \in DOMAIN segs :
    /\ segs[i].status = "FAILED" /\ segs[i].retryCount = 1
    /\ segs[j].status = "SKIPPED" /\ segs[j].retryCount = 3

\* C5: on a quota error the engine state becomes QUOTA_PAUSED, and the write
\* that follows puts exactly the claimed segment back as PENDING, retryCount
\* and translatedHtml unchanged, every other segment and the project record
\* unchanged.
C5_QuotaOutcome ==
  [][/\ TranslateQuota => appState' = "QUOTA_PAUSED"
     /\ \A i \in DOMAIN segs :
          OutcomeWrite(i, "quota") =>
            /\ segs' = [segs EXCEPT ![i].status = "PENDING"]
            /\ project' = project]_vars

\* C6: while the engine state is QUOTA_PAUSED no segment becomes TRANSLATING.
C6_NoClaimWhileQuotaPaused ==
  [][appState = "QUOTA_PAUSED" =>
       \A i \in DOMAIN segs :
         segs'[i].status = "TRANSLATING" => segs[i].status = "TRANSLATING"]_vars

\* C10: the engine state leaves PAUSED only by a click on play/pause, to
\* TRANSLATING.
C10_PausedUntilResume ==
  [][appState = "PAUSED" =>
       \/ appState' = "PAUSED"
       \/ appState' = "TRANSLATING" /\ toggles' = toggles + 1]_vars

\* ------------------------------------------------- runs without a pause
\* A click on play when the engine is not running.
start == appState # "TRANSLATING" /\ togglePlayPause

\* The steps of the workers with a translator that never reports a quota error.
RunStep ==
  \/ Claim
  \/ TranslateOk
  \/ TranslateFail
  \/ PutSeg
  \/ GetProject
  \/ Count
  \/ PutProject
  \/ StatsTotal
  \/ StatsTranslated
  \/ StatsDone

NextRun ==
  \/ start
  \/ Effect
  \/ RunStep

\* Fairness: the event loop runs every pending effect and every continuation
\* that is ready, and every translateHtml call returns.
SpecRun == Init /\ [][NextRun]_vars /\ WF_vars(Effect) /\ WF_vars(RunStep)

NextReload ==
  \/ start
  \/ Effect
  \/ RunStep
  \/ Reload

SpecReload == Init /\ [][NextReload]_vars /\ WF_vars(Effect) /\ WF_vars(RunStep)

AllSettled == \A i \in DOMAIN segs : segs[i].status \in {"TRANSLATED", "SKIPPED"}

\* C8: once the page was reloaded and the engine started again, every
\* segment is eventually TRANSLATED or SKIPPED.
C8_SettledAfterReload == (reloads > 0 /\ appState = "TRANSLATING") ~> AllSettled

\* C9: without pause and quota error a started run ends with no worker left
\* and every segment TRANSLATED or SKIPPED, and translateHtml is called at
\* most 3 times for a segment.
C9_BoundedRetry ==
  /\ [](\A i \in DOMAIN segs : attempts[i] <= 3)
  /\ (appState = "TRANSLATING") ~> (LiveWorkers = {} /\ AllSettled)

\* C9 witness: a run has ended in which one segment was translated and
\* another skipped after three attempts.
C9_Witness ==
  /\ LiveWorkers = {}
  /\ appState = "IDLE"
  /\ rendered = appState
  /\ \E i, j \in DOMAIN segs :
       /\ segs[i].status = "TRANSLATED"
       /\ segs[j].status = "SKIPPED" /\ attempts[j] = 3

\* ------------------------------------------------------ a quota outage
\* Segments of the book of the outage runs.
OutageSegs == 7
\* Calls the translator answers with a 429 before it translates again.
OutageLen == 6
\* Clicks on play/pause in an outage run.
OutageClicks == 4

\* A store request is served before the next answer of the translator and
\* before the next click.
StoresIdle == segQ = <<>> /\ projQ = <<>>

\* The translator answers OutageLen calls with a 429 and translates afterwards.
OutageQuota ==
  /\ StoresIdle
  /\ quotas < OutageLen
  /\ \E w \in BagToSet(net) : Quota(w)

OutageOk == StoresIdle /\ quotas = OutageLen /\ TranslateOk

OutageStep ==
  \/ Claim
  \/ OutageQuota
  \/ OutageOk
  \/ PutSeg
  \/ GetProject
  \/ Count
  \/ PutProject
  \/ StatsTotal
  \/ StatsTranslated
  \/ StatsDone

\* The user clicks before the first 429 or after the last.
OutageClick ==
  /\ StoresIdle
  /\ quotas \in {0, OutageLen}
  /\ toggles < OutageClicks
  /\ Click

NextOutage ==
  \/ OutageClick
  \/ Effect
  \/ OutageStep

InitOutage == InitStore(OutageSegs) /\ InitEngine

SpecOutage ==
  InitOutage /\ [][NextOutage]_vars /\ WF_vars(Effect) /\ WF_vars(OutageStep)

\* C7: segments a quota error wrote back as PENDING before a resume are,
\* with no pause and no quota error after that resume, eventually all
\* claimed again.
C7_ReclaimedAfterResume == (resumed # {}) ~> (resumed = {})

\* ------------------------------------------------------- retry skipped
\* A reset that forgets to clear the error text.
retrySkippedSegments_KeepsError(store) ==
  [i \in DOMAIN store |->
     IF store[i].status = "SKIPPED"
       THEN [store[i] EXCEPT !.status = "PENDING", !.retryCount = 0]
       ELSE store[i]]

\* A reset that leaves the retry count as it is.
retrySkippedSegments_KeepsCount(store) ==
  [i \in DOMAIN store |->
     IF store[i].status = "SKIPPED"
       THEN [store[i] EXCEPT !.status = "PENDING", !.error = FALSE]
       ELSE store[i]]

\* A reset that takes every terminal segment, TRANSLATED ones included.
retrySkippedSegments_AlsoTranslated(store) ==
  [i \in DOMAIN store |->
     IF store[i].status \in {"SKIPPED", "TRANSLATED"}
       THEN [store[i] EXCEPT !.status = "PENDING", !.retryCount = 0, !.error = FALSE]
       ELSE store[i]]

\* dbService.retrySkippedSegments, the store after it: in one readwrite
\* transaction every SKIPPED segment gets status PENDING, retryCount 0 and
\* no error.
retrySkippedSegments(store) ==
  [i \in DOMAIN store |->
     IF store[i].status = "SKIPPED"
       THEN [store[i] EXCEPT !.status = "PENDING", !.retryCount = 0, !.error = FALSE]
       ELSE store[i]]

\* retrySkipped, the click: the button is there while the engine is not
\* TRANSLATING and a segment is SKIPPED; the handler calls
\* dbService.retrySkippedSegments.
retrySkipped ==
  /\ toggles < MaxToggles
  /\ rendered = appState
  /\ appState # "TRANSLATING"
  /\ countFromIndex(segs, "SKIPPED") > 0
  /\ \E g \in Gens : FreeGen(g)   \* bound: a later processQueue call needs a number
  /\ toggles' = toggles + 1
  /\ Wait(net, segQ, projQ, Idle(0, "retry", NoProject, 0))
  /\ UNCHANGED <<appState, rendered, processingRef, activeWorkers, isQuotaHit,
                 segs, project, quotas, attempts, quotaSeg, resumed, reloads, call, edit, upload, bundle, epub, logs>>

\* retrySkipped: the transaction of retrySkippedSegments runs; the handler
\* goes on to dbService.getAllSegments.
RetryReset ==
  /\ segQ # <<>>
  /\ Head(segQ).pc = "retry"
  /\ segs' = retrySkippedSegments(segs)
  /\ Wait(net, Tail(segQ), projQ, Idle(0, "getAll", NoProject, 0))
  /\ UNCHANGED <<appState, rendered, processingRef, activeWorkers, isQuotaHit,
                 project, toggles, quotas, attempts, quotaSeg, resumed, reloads, call, edit, upload, bundle, epub, logs>>

\* retrySkipped: getAllSegments returns; setAppState(TRANSLATING).
RetryDone ==
  /\ segQ # <<>>
  /\ Head(segQ).pc = "getAll"
  /\ appState' = "TRANSLATING"
  /\ Wait(net, Tail(segQ), projQ, Done)
  /\ UNCHANGED <<rendered, processingRef, activeWorkers, isQuotaHit, segs,
                 project, toggles, quotas, attempts, quotaSeg, resumed, reloads, call, edit, upload, bundle, epub, logs>>

NextRetry ==
  \/ togglePlayPause
  \/ Effect
  \/ WorkerStep
  \/ retrySkipped
  \/ RetryReset
  \/ RetryDone

SpecRetry == Init /\ [][NextRetry]_vars

Terminal == {"TRANSLATED", "SKIPPED"}

C11_CompletedWhenDone ==
  (/\ LiveWorkers = {}
   /\ segs # <<>>
   /\ \E i \in DOMAIN segs : attempts[i] > 0
   /\ countFromIndex(segs, "TRANSLATED") = Cardinality(DOMAIN segs))
    => appState = "COMPLETED"

\* ---------------------------------------------------- translateHtml calls
\* One call of translateHtml, for any fragment and any answer of the model.
translateHtmlCall ==
  /\ call = NoCall
  /\ \E html \in Strings(HtmlChars, MaxHtmlLen), text \in Strings(TextChars, MaxHtmlLen) :
       call' = [pc |-> "done", html |-> html, text |-> text,
                result |-> translateHtml(html, text)]
  /\ UNCHANGED <<appState, rendered, processingRef, activeWorkers, isQuotaHit,
                 net, segQ, projQ, segs, project, toggles, quotas, attempts,
                 quotaSeg, resumed, reloads, edit, upload, bundle, epub, logs>>

NextTranslate == translateHtmlCall

SpecTranslate == Init /\ [][NextTranslate]_vars

\* How often x occurs in the sequence s.
Times(s, x) == Cardinality({k \in DOMAIN s : s[k] = x})

\* The sequences a and b hold the same elements with the same multiplicities.
SameMultiset(a, b) == \A x \in Range(a) \cup Range(b) : Times(a, x) = Times(b, x)

\* The tag tokens of the fragment and of the cleaned answer of the call are
\* the same multiset.
CallTagsAgree ==
  SameMultiset(match(call.html, 1), match(cleanHtml(trim(call.text)), 1))

\* C14 as stated: translateHtml returns only if the tag tokens of the cleaned
\* response and of the original are the same multiset, and whenever they
\* differ it fails with the integrity error.
C14_IntegrityIffMultiset ==
  call.pc = "done" =>
    /\ call.result.ok => CallTagsAgree
    /\ ~CallTagsAgree => call.result.error = IntegrityMismatch

\* C14 amended: translateHtml returns only if the two multisets are equal;
\* when they differ it fails, with the integrity error if the response holds
\* anything but white space and with the empty-response error otherwise.
C14_IntegrityUnlessEmpty ==
  call.pc = "done" =>
    /\ call.result.ok => CallTagsAgree /\ call.result.value = cleanHtml(trim(call.text))
    /\ ~CallTagsAgree =>
         /\ ~call.result.ok
         /\ call.result.error =
              IF trim(call.text) = <<>> THEN EmptyResponse ELSE IntegrityMismatch

\* C14 witness: a call returned although the tags of the answer come in
\* another order than in the fragment, and inside a code fence.
C14_Witness ==
  /\ call.pc = "done"
  /\ call.result.ok
  /\ Len(match(call.html, 1)) = 2
  /\ match(call.html, 1) # match(call.result.value, 1)

\* ------------------------------------------------------------ manual edits
MaxEdits == 1

\* What the user may leave in the text area: text without a tag, the element
\* of an even segment, the element of an odd segment.
EditTexts == {<<"p">>, <<"<", "b", " ", "<", "/", "b">>, <<"<", "p", " ", "<", "/", "p">>}

\* handleSegmentChange(newText) for the segment shown, i: the copy of
\* segmentsRef.current[i] with the new text is kept for the debounce timer.
\* While no worker and no store request is left, segmentsRef holds the stored
\* records; the model takes keystrokes in these states only.
handleSegmentChange ==
  /\ edit.n < MaxEdits
  /\ LiveWorkers = {}
  /\ \E i \in DOMAIN segs, newText \in EditTexts :
       edit' = [n |-> edit.n + 1,
                seg |-> [id |-> i, status |-> segs[i].status,
                         retryCount |-> segs[i].retryCount,
                         translatedHtml |-> newText, error |-> segs[i].error]]
  /\ UNCHANGED <<appState, rendered, processingRef, activeWorkers, isQuotaHit,
                 net, segQ, projQ, segs, project, toggles, quotas, attempts,
                 quotaSeg, resumed, reloads, call, upload, bundle, epub, logs>>

\* The debounce timer fires: dbService.updateSegment(updatedSegment).
EditTimer ==
  /\ edit.seg # NoSeg
  /\ edit' = [edit EXCEPT !.seg = NoSeg]
  /\ Wait(net, segQ, projQ, Worker(0, "editPut", edit.seg, NoProject, 0, "none"))
  /\ UNCHANGED <<appState, rendered, processingRef, activeWorkers, isQuotaHit,
                 segs, project, toggles, quotas, attempts, quotaSeg, resumed,
                 reloads, call, upload, bundle, epub, logs>>

\* updateSegment of the edit: await db.put('segments', segment)
EditPut ==
  /\ segQ # <<>>
  /\ Head(segQ).pc = "editPut"
  /\ segs' = put(segs, Head(segQ).seg)
  /\ Wait(net, Tail(segQ), projQ,
          IF Head(segQ).seg.status = "TRANSLATED"
            THEN Idle(0, "editGetProject", NoProject, 0) ELSE Done)
  /\ UNCHANGED <<appState, rendered, processingRef, activeWorkers, isQuotaHit,
                 project, toggles, quotas, attempts, quotaSeg, resumed,
                 reloads, call, edit, upload, bundle, epub, logs>>

\* updateSegment of the edit: const project = await this.getProject()
EditGetProject ==
  /\ projQ # <<>>
  /\ Head(projQ).pc = "editGetProject"
  /\ Wait(net, segQ, Tail(projQ),
          IF project.present THEN Idle(0, "editCount", project, 0) ELSE Done)
  /\ UNCHANGED <<appState, rendered, processingRef, activeWorkers, isQuotaHit,
                 segs, project, toggles, quotas, attempts, quotaSeg, resumed,
                 reloads, call, edit, upload, bundle, epub, logs>>

\* updateSegment of the edit: the count of TRANSLATED segments
EditCount ==
  /\ segQ # <<>>
  /\ Head(segQ).pc = "editCount"
  /\ Wait(net, Tail(segQ), projQ,
          Idle(0, "editPutProject",
               [Head(segQ).proj EXCEPT !.translatedSegments =
                                         countFromIndex(segs, "TRANSLATED")], 0))
  /\ UNCHANGED <<appState, rendered, processingRef, activeWorkers, isQuotaHit,
                 segs, project, toggles, quotas, attempts, quotaSeg, resumed,
                 reloads, call, edit, upload, bundle, epub, logs>>

\* updateSegment of the edit: await db.put('project', project, PROJECT_KEY)
EditPutProject ==
  /\ projQ # <<>>
  /\ Head(projQ).pc = "editPutProject"
  /\ project' = Head(projQ).proj
  /\ Wait(net, segQ, Tail(projQ), Done)
  /\ UNCHANGED <<appState, rendered, processingRef, activeWorkers, isQuotaHit,
                 segs, toggles, quotas, attempts, quotaSeg, resumed,
                 reloads, call, edit, upload, bundle, epub, logs>>

\* Runs without a pause and without a quota error, with manual edits.
NextEdit ==
  \/ start
  \/ Effect
  \/ RunStep
  \/ handleSegmentChange
  \/ EditTimer
  \/ EditPut
  \/ EditGetProject
  \/ EditCount
  \/ EditPutProject

SpecEdit == Init /\ [][NextEdit]_vars

\* C13: every TRANSLATED segment holds translated markup whose tag tokens
\* are the same multiset as those of its original markup.
C13_TranslatedHasIntegrity ==
  \A i \in DOMAIN segs :
    segs[i].status = "TRANSLATED" =>
      SameMultiset(match(originalHtml(i), 1), match(segs[i].translatedHtml, 1))

C16_RetryResetsSkippedOnly ==
  [][RetryReset =>
       /\ DOMAIN segs' = DOMAIN segs
       /\ project' = project
       /\ \A i \in DOMAIN segs :
            IF segs[i].status = "SKIPPED"
              THEN /\ segs'[i].status = "PENDING"
                   /\ segs'[i].retryCount = 0
                   /\ ~segs'[i].error
                   /\ segs'[i].translatedHtml = segs[i].translatedHtml
              ELSE segs'[i] = segs[i]]_vars

\* C16 witness: retrySkipped has just reset a segment that was given up
\* after three failures, next to a TRANSLATED segment.
C16_Witness ==
  /\ segQ # <<>>
  /\ Head(segQ).pc = "getAll"
  /\ \E i \in DOMAIN segs :
       segs[i].status = "PENDING" /\ attempts[i] = MaxRetries /\ segs[i].retryCount = 0
  /\ \E j \in DOMAIN segs : segs[j].status = "TRANSLATED"

MaxImports == 1

\* The segments parseAndSegment returns for a book of n fragments: ids by
\* file and batch index (the same files give the same ids), all PENDING.
importedSegments(n) ==
  [i \in 1..n |-> [status |-> "PENDING", retryCount |-> 0,
                   translatedHtml |-> <<>>, error |-> FALSE]]

\* The project record parseAndSegment returns with n segments.
importedProject(n) ==
  [present |-> TRUE, totalSegments |-> n, translatedSegments |-> 0]

\* addSegments: one transaction puts every segment.
addSegments(store, new) ==
  [i \in DOMAIN store \cup DOMAIN new |-> IF i \in DOMAIN new THEN new[i] ELSE store[i]]

\* The button Close Project: setView('landing'). Nothing else changes; the
\* workers go on.
closeProject ==
  /\ upload.view = "studio"
  /\ upload.n < MaxImports
  /\ upload' = [upload EXCEPT !.view = "landing"]
  /\ UNCHANGED <<appState, rendered, processingRef, activeWorkers, isQuotaHit,
                 net, segQ, projQ, segs, project, toggles, quotas, attempts,
                 quotaSeg, resumed, reloads, call, edit, bundle, epub, logs>>

\* A click on play in the studio view, before the import.
startStudio == upload.view = "studio" /\ upload.n = 0 /\ start

\* handleFileUpload, up to its first await: setAppState(ANALYZING) and
\* clearDatabase, whose first request clears the store 'project'.
handleFileUpload ==
  /\ upload.view = "landing"
  /\ upload.pc = "none"
  /\ upload.n < MaxImports
  /\ rendered = appState
  /\ appState' = "ANALYZING"
  /\ upload' = [upload EXCEPT !.pc = "clearing"]
  /\ Wait(net, segQ, projQ, Idle(0, "impClearProject", NoProject, 0))
  /\ UNCHANGED <<rendered, processingRef, activeWorkers, isQuotaHit, segs,
                 project, toggles, quotas, attempts, quotaSeg, resumed,
                 reloads, call, edit, bundle, epub, logs>>

\* clearDatabase: await db.clear('project'). React has run the effect of the
\* render for ANALYZING before the store answers.
ImpClearProject ==
  /\ rendered = appState
  /\ projQ # <<>>
  /\ Head(projQ).pc = "impClearProject"
  /\ project' = NoProject
  /\ Wait(net, segQ, Tail(projQ), Idle(0, "impClearSegs", NoProject, 0))
  /\ UNCHANGED <<appState, rendered, processingRef, activeWorkers, isQuotaHit,
                 segs, toggles, quotas, attempts, quotaSeg, resumed, reloads,
                 call, edit, upload, bundle, epub, logs>>

\* clearDatabase: await db.clear('segments'); parseAndSegment starts.
ImpClearSegs ==
  /\ segQ # <<>>
  /\ Head(segQ).pc = "impClearSegs"
  /\ segs' = <<>>
  /\ upload' = [upload EXCEPT !.pc = "parsing"]
  /\ Wait(net, Tail(segQ), projQ, Done)
  /\ UNCHANGED <<appState, rendered, processingRef, activeWorkers, isQuotaHit,
                 project, toggles, quotas, attempts, quotaSeg, resumed, reloads,
                 call, edit, bundle, epub, logs>>

\* parseAndSegment returns segments: dbService.saveProject(result.project).
ImpParsed ==
  /\ upload.pc = "parsing"
  /\ upload' = [upload EXCEPT !.pc = "writing"]
  /\ Wait(net, segQ, projQ, Idle(0, "impSaveProject", NoProject, 0))
  /\ UNCHANGED <<appState, rendered, processingRef, activeWorkers, isQuotaHit,
                 segs, project, toggles, quotas, attempts, quotaSeg, resumed,
                 reloads, call, edit, bundle, epub, logs>>

\* parseAndSegment throws, or returns no segment: setAppState(ERROR).
ImpParseFails ==
  /\ upload.pc = "parsing"
  /\ appState' = "ERROR"
  /\ upload' = [upload EXCEPT !.pc = "none", !.n = upload.n + 1]
  /\ UNCHANGED <<rendered, processingRef, activeWorkers, isQuotaHit, net, segQ,
                 projQ, segs, project, toggles, quotas, attempts, quotaSeg,
                 resumed, reloads, call, edit, bundle, epub, logs>>

\* saveProject: await db.put('project', ..); then dbService.addSegments.
ImpSaveProject ==
  /\ projQ # <<>>
  /\ Head(projQ).pc = "impSaveProject"
  /\ project' = importedProject(NumSegs)
  /\ Wait(net, segQ, Tail(projQ), Idle(0, "impAddSegments", NoProject, 0))
  /\ UNCHANGED <<appState, rendered, processingRef, activeWorkers, isQuotaHit,
                 segs, toggles, quotas, attempts, quotaSeg, resumed, reloads,
                 call, edit, upload, bundle, epub, logs>>

\* addSegments: the transaction; then loadProject, first dbService.getProject.
ImpAddSegments ==
  /\ segQ # <<>>
  /\ Head(segQ).pc = "impAddSegments"
  /\ segs' = addSegments(segs, importedSegments(NumSegs))
  /\ Wait(net, Tail(segQ), projQ, Idle(0, "impGetProject", NoProject, 0))
  /\ UNCHANGED <<appState, rendered, processingRef, activeWorkers, isQuotaHit,
                 project, toggles, quotas, attempts, quotaSeg, resumed, reloads,
                 call, edit, upload, bundle, epub, logs>>

\* loadProject: const proj = await dbService.getProject(); without a project
\* the landing view stays and the handler returns.
ImpGetProject ==
  /\ projQ # <<>>
  /\ Head(projQ).pc = "impGetProject"
  /\ IF project.present
       THEN /\ Wait(net, segQ, Tail(projQ), Idle(0, "impGetAll", project, 0))
            /\ UNCHANGED upload
       ELSE /\ Wait(net, segQ, Tail(projQ), Done)
            /\ upload' = [upload EXCEPT !.pc = "none", !.n = upload.n + 1]
  /\ UNCHANGED <<appState, rendered, processingRef, activeWorkers, isQuotaHit,
                 segs, project, toggles, quotas, attempts, quotaSeg, resumed,
                 reloads, call, edit, bundle, epub, logs>>

\* loadProject: getAllSegments returns; setAppState from the record read,
\* setView('studio'); handleFileUpload returns: the import has finished.
ImpGetAll ==
  /\ segQ # <<>>
  /\ Head(segQ).pc = "impGetAll"
  /\ appState' = loadProject(Head(segQ).proj)
  /\ upload' = [view |-> "studio", pc |-> "none", n |-> upload.n + 1]
  /\ Wait(net, Tail(segQ), projQ, Done)
  /\ UNCHANGED <<rendered, processingRef, activeWorkers, isQuotaHit, segs,
                 project, toggles, quotas, attempts, quotaSeg, resumed, reloads,
                 call, edit, bundle, epub, logs>>

ImportStep ==
  \/ ImpClearProject
  \/ ImpClearSegs
  \/ ImpParsed
  \/ ImpParseFails
  \/ ImpSaveProject
  \/ ImpAddSegments
  \/ ImpGetProject
  \/ ImpGetAll

\* Runs without a pause and without a quota error, up to the end of an
\* import; the project is closed and a book is imported at any moment.
NextImport ==
  \/ startStudio
  \/ Effect
  \/ RunStep
  \/ closeProject
  \/ handleFileUpload
  \/ ImportStep

SpecImport == Init /\ [][NextImport]_vars

\* C18: when an import finishes, the store holds the record of the new
\* project with translated count 0 and the segments of the new project and
\* no other, all PENDING.
C18_ImportAtomic ==
  [][ImpGetAll =>
       /\ project' = importedProject(NumSegs)
       /\ segs' = importedSegments(NumSegs)]_vars

\* ------------------------------------------------------------ the restore
\* project.json of a bundle: absent, not JSON, the JSON value null, an object
\* with neither projectData nor id, the project object itself (legacy), or
\* the wrapper with projectData.
ProjectJsons == {"missing", "unparsable", "null", "noProjectData", "legacy", "wrapped"}

\* segments.json of a bundle: absent, not JSON, JSON that is no list, a list
\* whose items have no id, or the list of segments.
SegmentsJsons == {"missing", "unparsable", "notList", "noIds", "list"}

\* The files handed to restoreBackup: a zip or not, with or without
\* source.epub.
Bundles ==
  [zip : BOOLEAN, source : BOOLEAN, projectJson : ProjectJsons,
   segmentsJson : SegmentsJsons]

\* restoreBackup without the test for source.epub.
restoreCheck_NoSourceCheck(b) ==
  IF ~b.zip THEN "Invalid file format"
  ELSE IF b.projectJson = "missing" THEN "Missing project metadata"
  ELSE IF b.segmentsJson = "missing" THEN "Missing translation segments"
  ELSE IF b.projectJson = "unparsable" \/ b.segmentsJson = "unparsable"
    THEN "Corrupted backup data"
  ELSE IF b.projectJson = "null" THEN "TypeError"
  ELSE IF b.projectJson = "noProjectData" THEN "Malformed project metadata"
  ELSE IF b.segmentsJson = "notList" THEN "TypeError"
  ELSE "ok"

\* restoreBackup up to its first store request: the error it throws for
\* bundle b, "ok" when it goes on to clearDatabase.
restoreCheck(b) ==
  IF ~b.zip THEN "Invalid file format"
  ELSE IF b.projectJson = "missing" THEN "Missing project metadata"
  ELSE IF b.segmentsJson = "missing" THEN "Missing translation segments"
  ELSE IF ~b.source THEN "Missing source EPUB file"
  ELSE IF b.projectJson = "unparsable" \/ b.segmentsJson = "unparsable"
    THEN "Corrupted backup data"
  ELSE IF b.projectJson = "null" THEN "TypeError"
  ELSE IF b.projectJson = "noProjectData" THEN "Malformed project metadata"
  ELSE IF b.segmentsJson = "notList" THEN "TypeError"
  ELSE "ok"

\* The segments of segments.json: the first translated, the others pending.
restoredSegments ==
  [i \in 1..NumSegs |->
     IF i = 1 THEN Stored(Translated(MarkTranslating(importedSegments(NumSegs), i)))
              ELSE importedSegments(NumSegs)[i]]

\* The project record restoreBackup builds: totalSegments and
\* translatedSegments recomputed from the segments.
restoredProject ==
  [present |-> TRUE, totalSegments |-> Len(restoredSegments),
   translatedSegments |-> countFromIndex(restoredSegments, "TRANSLATED")]

\* handleRestoreBackup with file b: restoreBackup checks the bundle; it
\* throws, and the handler logs the error, or it calls clearDatabase.
handleRestoreBackup ==
  /\ upload.view = "landing"
  /\ upload.pc = "none"
  /\ upload.n < MaxImports
  /\ \E b \in Bundles :
       /\ bundle' = b
       /\ IF restoreCheck(b) = "ok"
            THEN /\ upload' = [upload EXCEPT !.pc = "restoring"]
                 /\ Wait(net, segQ, projQ, Idle(0, "resClearProject", NoProject, 0))
            ELSE /\ upload' = [upload EXCEPT !.n = upload.n + 1]
                 /\ UNCHANGED <<net, segQ, projQ>>
  /\ UNCHANGED <<appState, rendered, processingRef, activeWorkers, isQuotaHit,
                 segs, project, toggles, quotas, attempts, quotaSeg, resumed,
                 reloads, call, edit, epub, logs>>

\* clearDatabase: await db.clear('project')
ResClearProject ==
  /\ projQ # <<>>
  /\ Head(projQ).pc = "resClearProject"
  /\ project' = NoProject
  /\ upload' = [upload EXCEPT !.pc = "wiped"]
  /\ Wait(net, segQ, Tail(projQ), Idle(0, "resClearSegs", NoProject, 0))
  /\ UNCHANGED <<appState, rendered, processingRef, activeWorkers, isQuotaHit,
                 segs, toggles, quotas, attempts, quotaSeg, resumed, reloads,
                 call, edit, bundle, epub, logs>>

\* clearDatabase: await db.clear('segments'); then dbService.saveProject.
ResClearSegs ==
  /\ segQ # <<>>
  /\ Head(segQ).pc = "resClearSegs"
  /\ segs' = <<>>
  /\ Wait(net, Tail(segQ), projQ, Idle(0, "resSaveProject", NoProject, 0))
  /\ UNCHANGED <<appState, rendered, processingRef, activeWorkers, isQuotaHit,
                 project, toggles, quotas, attempts, quotaSeg, resumed, reloads,
                 call, edit, upload, bundle, epub, logs>>

\* saveProject: await db.put('project', ..); then dbService.addSegments.
ResSaveProject ==
  /\ projQ # <<>>
  /\ Head(projQ).pc = "resSaveProject"
  /\ project' = restoredProject
  /\ Wait(net, segQ, Tail(projQ), Idle(0, "resAddSegments", NoProject, 0))
  /\ UNCHANGED <<appState, rendered, processingRef, activeWorkers, isQuotaHit,
                 segs, toggles, quotas, attempts, quotaSeg, resumed, reloads,
                 call, edit, upload, bundle, epub, logs>>

\* addSegments: the transaction, then loadProject; with items that have no
\* id the first put throws, restoreBackup rejects and the handler logs it.
ResAddSegments ==
  /\ segQ # <<>>
  /\ Head(segQ).pc = "resAddSegments"
  /\ IF bundle.segmentsJson = "noIds"
       THEN /\ upload' = [upload EXCEPT !.pc = "none", !.n = upload.n + 1]
            /\ Wait(net, Tail(segQ), projQ, Done)
            /\ UNCHANGED segs
       ELSE /\ segs' = addSegments(segs, restoredSegments)
            /\ Wait(net, Tail(segQ), projQ, Idle(0, "impGetProject", NoProject, 0))
            /\ UNCHANGED upload
  /\ UNCHANGED <<appState, rendered, processingRef, activeWorkers, isQuotaHit,
                 project, toggles, quotas, attempts, quotaSeg, resumed, reloads,
                 call, edit, bundle, epub, logs>>

RestoreStep ==
  \/ ResClearProject
  \/ ResClearSegs
  \/ ResSaveProject
  \/ ResAddSegments
  \/ ImpGetProject
  \/ ImpGetAll

\* Runs without a pause and without a quota error, up to the end of a
\* restore; the project is closed and a file is restored at any moment.
NextRestore ==
  \/ startStudio
  \/ Effect
  \/ RunStep
  \/ closeProject
  \/ handleRestoreBackup
  \/ RestoreStep

SpecRestore == Init /\ [][NextRestore]_vars

\* A bundle that is no zip, lacks one of the three entries, holds JSON that
\* does not parse, or holds no project metadata.
InvalidBundle(b) ==
  \/ ~b.zip
  \/ ~b.source
  \/ b.projectJson \in {"missing", "unparsable", "null", "noProjectData"}
  \/ b.segmentsJson \in {"missing", "unparsable"}

\* C19: restoreBackup called with a structurally invalid bundle fails, and
\* the step changes neither store nor places a request on one.
C19_InvalidBundleUntouched ==
  [][handleRestoreBackup /\ InvalidBundle(bundle') =>
       /\ upload'.pc = "none"
       /\ upload'.n = upload.n + 1
       /\ restoreCheck(bundle') # "ok"
       /\ segs' = segs /\ project' = project
       /\ segQ' = segQ /\ projQ' = projQ]_vars

\* C19 witness: a restore of a zip without source.epub has failed over a
\* store that holds a project with a translated segment.
C19_Witness ==
  /\ bundle # NoBundle
  /\ bundle.zip /\ ~bundle.source
  /\ bundle.projectJson = "wrapped" /\ bundle.segmentsJson = "list"
  /\ upload.pc = "none" /\ upload.n = 1
  /\ project.present /\ project.translatedSegments > 0
  /\ countFromIndex(segs, "TRANSLATED") > 0

\* C20: from the moment restore has begun to wipe the store until the
\* handler returns, the store holds the restored project and all of its
\* segments.
C20_RestoreAtomic ==
  upload.pc = "wiped" => project = restoredProject /\ segs = restoredSegments

\* ------------------------------------------------------- the backup bundle
\* createBackup over the store (p, store): source.epub from the project
\* record, project.json with the project's fields, segments.json with every
\* segment as stored.
createBackup(p, store) ==
  [source |-> p.present, projectData |-> p, segments |-> store]

\* What restoreBackup writes for the bundle b: the project's fields from
\* project.json, except totalSegments and translatedSegments, which it takes
\* from the segment list; the segments as listed.
restoreBackup(b) ==
  [project |-> [b.projectData EXCEPT
                  !.totalSegments = Len(b.segments),
                  !.translatedSegments = countFromIndex(b.segments, "TRANSLATED")],
   segs |-> addSegments(<<>>, b.segments)]

\* C21: in every state of the store that holds a project, restoring the
\* backup of the store gives the store back: the same project record,
\* counts included, and the same segments.
C21_BackupRoundTrip ==
  project.present =>
    restoreBackup(createBackup(project, segs)) = [project |-> project, segs |-> segs]

\* --------------------------------------------------- the spine of an import
MaxSpine == 3
MaxBatches == 2

\* The ids of the manifest items, and the content documents of the archive.
Idrefs == {"c1", "c2"}
Hrefs == {"a.xhtml", "b.xhtml"}

\* A manifest: per item its href, "none" for an item without one.
Manifests == [Idrefs -> Hrefs \cup {"none"}]

\* The spines: up to MaxSpine itemrefs.
Spines == UNION {[1..n -> Idrefs] : n \in 0..MaxSpine}

\* The segments segmentHtmlV2 returns for a document it cuts into n batches:
\* id `${fileHref}::${batchIndex}`, batchIndex counted from 0 in every call.
segmentHtmlV2(fileHref, n) ==
  [k \in 1..n |-> [id |-> <<fileHref, k - 1>>, fileHref |-> fileHref,
                   batchIndex |-> k - 1, status |-> "PENDING", retryCount |-> 0]]

\* The loop over the itemrefs: the segments of each referenced document,
\* appended in spine order. batches[h] is the number of batches of document
\* h, 0 for a document that is missing or has nothing to translate.
RECURSIVE spineSegments(_, _, _)
spineSegments(spine, manifest, batches) ==
  IF spine = <<>> THEN <<>>
  ELSE LET href == manifest[Head(spine)]
           rest == spineSegments(Tail(spine), manifest, batches)
       IN IF href = "none" THEN rest
          ELSE segmentHtmlV2(href, batches[href]) \o rest

\* parseAndSegment of an archive with the given manifest and spine.
parseAndSegment ==
  /\ epub = NoEpub
  /\ \E spine \in Spines, manifest \in Manifests, batches \in [Hrefs -> 0..MaxBatches] :
       epub' = [pc |-> "parsed", spine |-> spine, manifest |-> manifest,
                segments |-> spineSegments(spine, manifest, batches)]
  /\ UNCHANGED <<appState, rendered, processingRef, activeWorkers, isQuotaHit,
                 net, segQ, projQ, segs, project, toggles, quotas, attempts,
                 quotaSeg, resumed, reloads, call, edit, upload, bundle, logs>>

NextParse == parseAndSegment

SpecParse == Init /\ [][NextParse]_vars

\* C22: the segments one import produces have pairwise distinct ids, for
\* every spine, also one that names the same document more than once.
C22_DistinctIds ==
  epub.pc = "parsed" =>
    \A i, j \in DOMAIN epub.segments :
      i # j => epub.segments[i].id # epub.segments[j].id

\* ------------------------------------------------------- draining a pause
\* C23: pause() cancels no translation in flight; the workers translating at
\* the pause write their outcomes and exit without a new claim, so that no
\* segment is TRANSLATING after at most five further outcomes: while the
\* engine is PAUSED, at most five segments are TRANSLATING.
C23_PauseDrains ==
  appState = "PAUSED" => countFromIndex(segs, "TRANSLATING") <= CONCURRENCY

\* ----------------------------------------------------------------- the logs
\* Log records appended in a run.
MaxLogs == 202
\* if (prev.length > 200)
LOG_LIMIT == 200

\* addLog: setSystemLogs(prev => [...prev, entry]).
addLog ==
  /\ Len(logs.system) + Len(logs.ai) < MaxLogs
  /\ logs' = [logs EXCEPT !.system = Append(logs.system, "INFO")]
  /\ UNCHANGED <<appState, rendered, processingRef, activeWorkers, isQuotaHit,
                 net, segQ, projQ, segs, project, toggles, quotas, attempts,
                 quotaSeg, resumed, reloads, call, edit, upload, bundle, epub>>

\* addAiLog: the oldest entry is dropped when prev.length > 200.
addAiLog ==
  /\ Len(logs.system) + Len(logs.ai) < MaxLogs \/ Len(logs.ai) > LOG_LIMIT
  /\ logs' = [logs EXCEPT !.ai = IF Len(logs.ai) > LOG_LIMIT
                                   THEN Append(Tail(logs.ai), "INFO")
                                   ELSE Append(logs.ai, "INFO")]
  /\ UNCHANGED <<appState, rendered, processingRef, activeWorkers, isQuotaHit,
                 net, segQ, projQ, segs, project, toggles, quotas, attempts,
                 quotaSeg, resumed, reloads, call, edit, upload, bundle, epub>>

NextLogs == addLog \/ addAiLog

SpecLogs == Init /\ [][NextLogs]_vars

\* C24: the log buffers the console shows never hold more than 200 entries,
\* however many records were appended.
C24_LogBound ==
  Len(logs.system) <= LOG_LIMIT /\ Len(logs.ai) <= LOG_LIMIT

\* ------------------------------------------------------ one call at a time
\* C25: segments are translated one by one: at any time at most one
\* translateHtml call is in flight.
C25_OneAtATime == InFlight <= 1

\* ------------------------------------------------- the content documents
\* Children of the body of a content document.
MaxItems == 3

BLOCK_TAGS == {"p", "div", "table", "blockquote", "li", "h1", "h2", "h3", "h4",
               "h5", "h6", "section", "article", "aside", "main", "header", "footer"}
BREAKER_TAGS == {"img", "hr", "pre", "svg", "figure"}
HEADER_TAGS == {"h1", "h2", "h3", "h4", "h5", "h6"}
BATCH_CHAR_LIMIT == 6000

\* A node: its tag ("#text" for a text node), whether it holds text of its
\* own that is not white space, the length of its own markup or text, and
\* its child nodes.
Node(tag, text, len, kids) == [tag |-> tag, text |-> text, len |-> len, kids |-> kids]

\* Nodes without modelled children: a paragraph of 2500 characters, one of
\* 6500, a heading, an image, a text of 1000 characters, white space, and a
\* table (its rows and cells, no block among its children, are part of len).
Leaves ==
  {Node("p", TRUE, 2500, <<>>), Node("p", TRUE, 6500, <<>>),
   Node("h2", TRUE, 100, <<>>), Node("img", FALSE, 50, <<>>),
   Node("#text", TRUE, 1000, <<>>), Node("#text", FALSE, 1, <<>>),
   Node("table", TRUE, 3000, <<>>)}

\* A div around one or two nodes: a paragraph, a text, a heading.
DivKids ==
  {Node("p", TRUE, 2500, <<>>), Node("#text", TRUE, 1000, <<>>),
   Node("h2", TRUE, 100, <<>>)}
Divs == {Node("div", FALSE, 11, kids) : kids \in [1..1 -> DivKids] \cup [1..2 -> DivKids]}

\* A breaker with text in it: preformatted text.
Pres == {Node("pre", FALSE, 11, <<Node("#text", TRUE, 1000, <<>>)>>)}

\* The bodies: up to MaxItems leaves, divs and breakers with text.
Bodies == UNION {[1..n -> Leaves \cup Divs \cup Pres] : n \in 0..MaxItems}

\* Node ids: 0 the body, 10 i the i-th child of the body, 10 i + j its j-th
\* child; 90 the style element reassembly adds and 91 its text; 100 + k the
\* markup inserted for segment k.
BODY == 0
STYLE == 90
NewNode(k) == 100 + k
NodeIds == {BODY, STYLE, STYLE + 1} \cup {10 * i + j : i \in 1..MaxItems, j \in 0..2}
             \cup {NewNode(k) : k \in 0..(3 * MaxItems)}

\* childNodes of every node of the parsed document.
childNodesOf(items) ==
  [n \in NodeIds |->
     IF n = BODY THEN [i \in 1..Len(items) |-> 10 * i]
     ELSE IF n \in {10 * i : i \in 1..Len(items)}
       THEN [j \in 1..Len(items[n \div 10].kids) |-> n + j]
     ELSE <<>>]

\* The node with id n of the document e.items: tag, own text, own length.
node(e, n) ==
  IF n = BODY THEN Node("body", FALSE, 13, <<>>)
  ELSE IF n = STYLE THEN Node("style", FALSE, 15, <<>>)
  ELSE IF n = STYLE + 1 THEN Node("#text", TRUE, 300, <<>>)
  ELSE IF n >= NewNode(0) THEN Node("p", TRUE, 2500, <<>>)
  ELSE IF n % 10 = 0 THEN e.items[n \div 10]
  ELSE e.items[n \div 10].kids[n % 10]

\* el.children: the child nodes that are elements.
children(e, n) == SelectSeq(e.kids[n], LAMBDA c : node(e, c).tag # "#text")

\* node.textContent?.trim(): some text in the subtree is not white space.
RECURSIVE textContent(_, _)
textContent(e, n) ==
  \/ node(e, n).text
  \/ \E k \in DOMAIN e.kids[n] : textContent(e, e.kids[n][k])

\* XMLSerializer.serializeToString(el).length, el.outerHTML.length and, for a
\* text node, textContent.length.
RECURSIVE length(_, _)
length(e, n) ==
  LET RECURSIVE sum(_)
      sum(s) == IF s = <<>> THEN 0 ELSE length(e, Head(s)) + sum(Tail(s))
  IN node(e, n).len + sum(e.kids[n])

\* isTranslatableElement / isTranslatableBlock: a block tag with text and
\* without a block or breaker among its child elements.
isTranslatableElement(e, n) ==
  /\ node(e, n).tag \in BLOCK_TAGS
  /\ textContent(e, n)
  /\ ~\E k \in DOMAIN e.kids[n] :
        node(e, e.kids[n][k]).tag \in BLOCK_TAGS \cup BREAKER_TAGS

\* ------------------------------------------------------------ the segmenter
\* The Segment record flushBatch pushes, without its markup: the id
\* `${fileHref}::${batchIndex++}` as the pair of its two parts, and
\* batchIndex - 1 after the increment.
Segment(fileHref, batchIndex) ==
  [id |-> <<fileHref, batchIndex>>, fileHref |-> fileHref,
   batchIndex |-> (batchIndex + 1) - 1]

\* A flush that emits the batch even when it is empty.
flushBatch_EmitsEmpty(e) ==
  [e EXCEPT !.segments = Append(@, e.batch),
            !.records = Append(@, Segment(e.fileHref, e.batchIndex)),
            !.batchIndex = @ + 1, !.batch = <<>>, !.len = 0]

\* A flush that stores the counter after the increment as batchIndex.
flushBatch_IndexAfterIncrement(e) ==
  IF e.batch # <<>>
    THEN [e EXCEPT !.segments = Append(@, e.batch),
                   !.records = Append(@, [Segment(e.fileHref, e.batchIndex)
                                            EXCEPT !.batchIndex = e.batchIndex + 1]),
                   !.batchIndex = @ + 1, !.batch = <<>>, !.len = 0]
    ELSE e

\* flushBatch: a batch that is not empty becomes the next segment, under the
\* next batch index of the document.
flushBatch(e) ==
  IF e.batch # <<>>
    THEN [e EXCEPT !.segments = Append(@, e.batch),
                   !.records = Append(@, Segment(e.fileHref, e.batchIndex)),
                   !.batchIndex = @ + 1, !.batch = <<>>, !.len = 0]
    ELSE e

\* A budget test that also flushes a batch the node fills exactly.
capture_AtLimit(e, n, l) ==
  LET f == IF e.len + l >= BATCH_CHAR_LIMIT THEN flushBatch(e) ELSE e
  IN [f EXCEPT !.batch = Append(@, n), !.len = @ + l]

\* The budget test of a captured node of counted length l: flush first when
\* the batch would exceed the limit, then push the node.
capture(e, n, l) ==
  LET f == IF e.len + l > BATCH_CHAR_LIMIT THEN flushBatch(e) ELSE e
  IN [f EXCEPT !.batch = Append(@, n), !.len = @ + l]

\* A walk that flushes before a heading but not after it.
traverse_NoFlushAfterHeading(e, n) ==
  LET tagName == node(e, n).tag
  IN IF tagName # "#text"
       THEN IF tagName \in BREAKER_TAGS THEN flushBatch(e)
            ELSE IF tagName \in HEADER_TAGS
              THEN [flushBatch(e) EXCEPT !.batch = <<n>>]
            ELSE IF isTranslatableElement(e, n) THEN capture(e, n, length(e, n))
            ELSE [e EXCEPT !.todo = e.kids[n] \o @]
       ELSE IF textContent(e, n) THEN capture(e, n, length(e, n))
            ELSE e

\* A version-2 walk that passes over text nodes.
traverse_SkipsText(e, n) ==
  LET tagName == node(e, n).tag
  IN IF tagName # "#text"
       THEN IF tagName \in BREAKER_TAGS THEN flushBatch(e)
            ELSE IF tagName \in HEADER_TAGS
              THEN flushBatch([flushBatch(e) EXCEPT !.batch = <<n>>])
            ELSE IF isTranslatableElement(e, n) THEN capture(e, n, length(e, n))
            ELSE [e EXCEPT !.todo = e.kids[n] \o @]
       ELSE e

\* traverse of segmentHtmlV2 for node n, the walk being at e: the walk after
\* it; the child nodes of a node it descends into come next.
traverse(e, n) ==
  LET tagName == node(e, n).tag
  IN IF tagName # "#text"
       THEN IF tagName \in BREAKER_TAGS THEN flushBatch(e)
            ELSE IF tagName \in HEADER_TAGS
              THEN flushBatch([flushBatch(e) EXCEPT !.batch = <<n>>])
            ELSE IF isTranslatableElement(e, n) THEN capture(e, n, length(e, n))
            ELSE [e EXCEPT !.todo = e.kids[n] \o @]
       ELSE IF textContent(e, n) THEN capture(e, n, length(e, n))
            ELSE e

\* traverse of segmentHtmlRecursiveLegacy: elements only.
traverseOfLegacy(e, n) ==
  LET tagName == node(e, n).tag
  IN IF tagName \in BREAKER_TAGS THEN flushBatch(e)
     ELSE IF tagName \in HEADER_TAGS
       THEN flushBatch([flushBatch(e) EXCEPT !.batch = <<n>>])
     ELSE IF isTranslatableElement(e, n) THEN capture(e, n, length(e, n))
     ELSE [e EXCEPT !.todo = children(e, n) \o @]

\* segmentHtmlV2 (version 2) or segmentHtmlLegacy (version 1) is called for
\* a document: the walk starts with the children of the body.
segmentHtml ==
  /\ epub = NoEpub
  /\ \E items \in Bodies, version \in {1, 2}, fileHref \in Hrefs :
       LET e == [items |-> items, kids |-> childNodesOf(items)]
       IN epub' = [pc |-> "segmenting", version |-> version, items |-> items,
                   fileHref |-> fileHref, kids |-> e.kids,
                   todo |-> IF version = 2 THEN e.kids[BODY] ELSE children(e, BODY),
                   batch |-> <<>>, len |-> 0, batchIndex |-> 0,
                   segments |-> <<>>, records |-> <<>>]
  /\ UNCHANGED <<appState, rendered, processingRef, activeWorkers, isQuotaHit,
                 net, segQ, projQ, segs, project, toggles, quotas, attempts,
                 quotaSeg, resumed, reloads, call, edit, upload, bundle, logs>>

\* The walk visits its next node.
SegmentVisit ==
  /\ epub.pc = "segmenting"
  /\ epub.todo # <<>>
  /\ LET e == [epub EXCEPT !.todo = Tail(@)]
         n == Head(epub.todo)
     IN epub' = IF epub.version = 2 THEN traverse(e, n) ELSE traverseOfLegacy(e, n)
  /\ UNCHANGED <<appState, rendered, processingRef, activeWorkers, isQuotaHit,
                 net, segQ, projQ, segs, project, toggles, quotas, attempts,
                 quotaSeg, resumed, reloads, call, edit, upload, bundle, logs>>

\* The walk is over: the last flushBatch, and the segments are returned.
SegmentReturn ==
  /\ epub.pc = "segmenting"
  /\ epub.todo = <<>>
  /\ epub' = [flushBatch(epub) EXCEPT !.pc = "segmented"]
  /\ UNCHANGED <<appState, rendered, processingRef, activeWorkers, isQuotaHit,
                 net, segQ, projQ, segs, project, toggles, quotas, attempts,
                 quotaSeg, resumed, reloads, call, edit, upload, bundle, logs>>

NextSegment == segmentHtml \/ SegmentVisit \/ SegmentReturn

SpecSegment == Init /\ [][NextSegment]_vars

\* ---------------------------------------------------------- the reassembler
\* parent.insertBefore(new, ref) on the child list s of the parent.
insertBefore(s, new, ref) ==
  LET i == CHOOSE k \in DOMAIN s : s[k] = ref
  IN SubSeq(s, 1, i - 1) \o <<new>> \o SubSeq(s, i, Len(s))

\* processBatch: nothing for an empty batch; else, when the segment at
\* segmentIndex exists and is TRANSLATED and the first node of the batch has
\* a parent, its markup is inserted before that node and every node of the
\* batch is removed from its parent; segmentIndex++ and the batch is emptied.
processBatch(e) ==
  IF e.batch = <<>> THEN e
  ELSE LET firstNode == e.batch[1]
           hasParent == \E p \in NodeIds : firstNode \in Range(e.kids[p])
           spliced ==
             [p \in NodeIds |->
                SelectSeq(IF firstNode \in Range(e.kids[p])
                            THEN insertBefore(e.kids[p], NewNode(e.segmentIndex), firstNode)
                            ELSE e.kids[p],
                          LAMBDA c : c \notin Range(e.batch))]
       IN [e EXCEPT !.kids = IF /\ e.segmentIndex < Len(e.segments)
                                /\ e.segmentIndex \in e.translated
                                /\ hasParent
                               THEN spliced ELSE @,
                    !.segmentIndex = @ + 1,
                    !.batches = Append(@, e.batch),
                    !.batch = <<>>]

\* currentBatchSize: the lengths of the nodes of the batch, added up.
currentBatchSize(e) ==
  LET RECURSIVE sum(_)
      sum(s) == IF s = <<>> THEN 0 ELSE length(e, Head(s)) + sum(Tail(s))
  IN sum(e.batch)

\* The budget test of the reassembly walks, then the push.
captureBatchNode(e, n) ==
  LET f == IF currentBatchSize(e) + length(e, n) > BATCH_CHAR_LIMIT /\ e.batch # <<>>
             THEN processBatch(e) ELSE e
  IN [f EXCEPT !.batch = Append(@, n)]

\* traverseV2 for node n, the walk being at e.
traverseV2(e, n) ==
  LET tagName == node(e, n).tag
  IN IF tagName # "#text"
       THEN IF tagName \in BREAKER_TAGS THEN processBatch(e)
            ELSE IF tagName \in HEADER_TAGS
              THEN processBatch([processBatch(e) EXCEPT !.batch = <<n>>])
            ELSE IF isTranslatableElement(e, n) THEN captureBatchNode(e, n)
            ELSE [e EXCEPT !.todo = e.kids[n] \o @]
       ELSE IF textContent(e, n) THEN captureBatchNode(e, n)
            ELSE e

\* traverseLegacy for element n.
traverseLegacy(e, n) ==
  LET tagName == node(e, n).tag
  IN IF tagName \in BREAKER_TAGS THEN processBatch(e)
     ELSE IF tagName \in HEADER_TAGS
       THEN processBatch([processBatch(e) EXCEPT !.batch = <<n>>])
     ELSE IF isTranslatableElement(e, n) THEN captureBatchNode(e, n)
     ELSE [e EXCEPT !.todo = children(e, n) \o @]

\* The document reassembleEpub walks: parsed again from the source, with the
\* style element put into the head, or before the first child of the body
\* when the document has no head.
withStyle(items, hasHead) ==
  IF hasHead THEN childNodesOf(items)
  ELSE [childNodesOf(items) EXCEPT ![BODY] = <<STYLE>> \o @,
                                   ![STYLE] = <<STYLE + 1>>]

\* reassembleEpub reaches the document: its segments are those the
\* segmenter cut, sorted by batchIndex, some of them TRANSLATED; the walk of
\* the project's schema version starts with the children of the body.
reassembleEpub ==
  /\ epub.pc = "segmented"
  /\ \E hasHead \in BOOLEAN, translated \in SUBSET (0..(Len(epub.segments) - 1)) :
       LET e == [epub EXCEPT !.kids = withStyle(epub.items, hasHead)]
       IN epub' = [pc |-> "reassembling", version |-> epub.version, items |-> epub.items,
                   kids |-> e.kids,
                   todo |-> IF epub.version = 2 THEN e.kids[BODY] ELSE children(e, BODY),
                   batch |-> <<>>, len |-> 0, segments |-> epub.segments,
                   hasHead |-> hasHead, translated |-> translated,
                   segmentIndex |-> 0, batches |-> <<>>]
  /\ UNCHANGED <<appState, rendered, processingRef, activeWorkers, isQuotaHit,
                 net, segQ, projQ, segs, project, toggles, quotas, attempts,
                 quotaSeg, resumed, reloads, call, edit, upload, bundle, logs>>

\* The reassembly walk visits its next node.
ReassembleVisit ==
  /\ epub.pc = "reassembling"
  /\ epub.todo # <<>>
  /\ LET e == [epub EXCEPT !.todo = Tail(@)]
         n == Head(epub.todo)
     IN epub' = IF epub.version = 2 THEN traverseV2(e, n) ELSE traverseLegacy(e, n)
  /\ UNCHANGED <<appState, rendered, processingRef, activeWorkers, isQuotaHit,
                 net, segQ, projQ, segs, project, toggles, quotas, attempts,
                 quotaSeg, resumed, reloads, call, edit, upload, bundle, logs>>

\* The walk is over: the last processBatch, and the document is serialised.
ReassembleReturn ==
  /\ epub.pc = "reassembling"
  /\ epub.todo = <<>>
  /\ epub' = [processBatch(epub) EXCEPT !.pc = "reassembled"]
  /\ UNCHANGED <<appState, rendered, processingRef, activeWorkers, isQuotaHit,
                 net, segQ, projQ, segs, project, toggles, quotas, attempts,
                 quotaSeg, resumed, reloads, call, edit, upload, bundle, logs>>

NextReassemble ==
  \/ NextSegment
  \/ reassembleEpub
  \/ ReassembleVisit
  \/ ReassembleReturn

SpecReassemble == Init /\ [][NextReassemble]_vars

\* C26: under schema version 2 the reassembly walk forms the batches the
\* segmenter formed: the same captured nodes in the same order and the same
\* number of batches, whichever segments are TRANSLATED and spliced in.
C26_SameBatches ==
  epub.pc = "reassembled" /\ epub.version = 2 => epub.batches = epub.segments

\* The batches a walk has formed so far, the open one included.
Captured(e) ==
  Range(e.segments) \cup {e.batch}
    \cup (IF e.pc \in {"reassembling", "reassembled"} THEN Range(e.batches) ELSE {})

\* C27: under schema version 1 a table is a breaker: neither the
\* segmentation walk nor the reassembly walk of version 1 ever has a table
\* in a batch.
C27_TableBreaksV1 ==
  epub.pc \in {"segmenting", "segmented", "reassembling", "reassembled"} /\ epub.version = 1 =>
    \A b \in Captured(epub) : \A i \in DOMAIN b : node(epub, b[i]).tag # "table"

\* The nodes the segmenter captured for the segments that are TRANSLATED.
Replaced(e) ==
  UNION {Range(e.segments[k + 1]) : k \in e.translated}

\* C28: reassembly replaces only the nodes captured for TRANSLATED
\* segments: in the reassembled document every other node of the source
\* document (captured for a segment that is not TRANSLATED, or captured by
\* no batch) is still a child of its parent, in the original order.
C28_OnlyTranslatedReplaced ==
  epub.pc = "reassembled" =>
    \A p \in NodeIds :
      SelectSeq(epub.kids[p], LAMBDA c : c < STYLE /\ c \notin Replaced(epub))
        = SelectSeq(childNodesOf(epub.items)[p], LAMBDA c : c \notin Replaced(epub))

\* ---------------------------------------------------------- the budget rule
\* The next node of the segmentation walk goes through the budget test: it
\* is no breaker and no heading, and it is a translatable block or, under
\* version 2, a text that is not white space.
BudgetNode(e) ==
  /\ e.pc = "segmenting"
  /\ e.todo # <<>>
  /\ LET n == Head(e.todo)
     IN /\ node(e, n).tag \notin BREAKER_TAGS \cup HEADER_TAGS
        /\ IF node(e, n).tag = "#text" THEN e.version = 2 /\ node(e, n).text
                                      ELSE isTranslatableElement(e, n)

\* Three paragraphs of 2500 characters.
ThreeParagraphs == [i \in 1..3 |-> Node("p", TRUE, 2500, <<>>)]

\* C29: the segmenter starts a new batch before a captured node exactly
\* when the open batch is not empty and the node's counted length would
\* take it over BATCH_CHAR_LIMIT; so every emitted segment is a single node
\* or counts at most 6000, and three paragraphs of 2500 characters give the
\* segments [p1, p2] and [p3].
C29_BudgetRule ==
  [][/\ BudgetNode(epub) =>
          LET n == Head(epub.todo)
              over == /\ epub.batch # <<>>
                      /\ currentBatchSize(epub) + length(epub, n) > BATCH_CHAR_LIMIT
          IN /\ over => /\ epub'.segments = Append(epub.segments, epub.batch)
                         /\ epub'.batch = <<n>>
             /\ ~over => /\ epub'.segments = epub.segments
                          /\ epub'.batch = Append(epub.batch, n)
     /\ epub'.pc \in {"segmenting", "segmented"} =>
          /\ \A k \in DOMAIN epub'.segments :
                \/ Len(epub'.segments[k]) = 1
                \/ currentBatchSize([epub' EXCEPT !.batch = epub'.segments[k]])
                     <= BATCH_CHAR_LIMIT
          /\ epub'.pc = "segmented" /\ epub'.items = ThreeParagraphs =>
                epub'.segments = <<(<<10, 20>>), (<<30>>)>>
    ]_vars

\* C29 witness: the version-2 walk over three paragraphs of 2500 characters
\* has returned two segments.
C29_Witness ==
  /\ epub.pc = "segmented"
  /\ epub.version = 2
  /\ epub.items = ThreeParagraphs
  /\ Len(epub.segments) = 2

\* ------------------------------------------------------------ the headings
\* C30: every heading the segmentation walk reaches is emitted as a segment
\* of exactly that node, whatever the budget left: the heading is pushed
\* into no open batch, and no emitted segment holds a heading next to
\* another node.
C30_HeadingAlone ==
  [][/\ epub.pc = "segmenting" /\ epub.todo # <<>>
        /\ node(epub, Head(epub.todo)).tag \in HEADER_TAGS =>
          /\ epub'.batch = <<>>
          /\ epub'.segments =
               (IF epub.batch = <<>> THEN epub.segments
                                     ELSE Append(epub.segments, epub.batch))
                 \o <<(<<Head(epub.todo)>>)>>
     /\ epub'.pc \in {"segmenting", "segmented"} =>
          \A b \in Range(epub'.segments) \cup {epub'.batch} :
            (\E i \in DOMAIN b : node(epub', b[i]).tag \in HEADER_TAGS) => Len(b) = 1
    ]_vars

\* C30 witness: a walk has returned a heading as a segment of its own
\* between two paragraphs that would have fitted into one batch with it.
C30_Witness ==
  /\ epub.pc = "segmented"
  /\ epub.items = <<Node("p", TRUE, 2500, <<>>), Node("h2", TRUE, 100, <<>>),
                    Node("p", TRUE, 2500, <<>>)>>
  /\ epub.segments = <<(<<10>>), (<<20>>), (<<30>>)>>

\* ---------------------------------------------- a heading, then a breaker
\* The walk has returned for a body that is a heading immediately followed
\* by a breaker element.
HeadingThenBreaker ==
  /\ epub.pc = "segmented"
  /\ Len(epub.items) = 2
  /\ epub.items[1].tag \in HEADER_TAGS
  /\ epub.items[2].tag \in BREAKER_TAGS

\* C31 as stated: a body that is a heading immediately followed by a breaker
\* yields two segments.
C31_TwoSegments == HeadingThenBreaker => Len(epub.segments) = 2

\* C31: a body that is a heading immediately followed by a breaker yields
\* one segment, the heading alone; the flush at the breaker and the flush at
\* the end of the body find an empty batch and emit nothing.
C31_HeadingOnly == HeadingThenBreaker => epub.segments = <<(<<10>>)>>

\* C31 witness: the walk has returned for a heading followed by an image.
C31_Witness ==
  /\ HeadingThenBreaker
  /\ epub.items = <<Node("h2", TRUE, 100, <<>>), Node("img", FALSE, 50, <<>>)>>
  /\ epub.batch = <<>>

\* --------------------------------------------------- what a claim returns
\* The step in which the store serves a worker's claim: the claim leaves the
\* head of the queue; a last worker that got nothing joins it again to read
\* the statistics.
ClaimServed ==
  /\ segQ # <<>>
  /\ Head(segQ).pc = "claim"
  /\ Len(segQ') \in {Len(segQ) - 1, Len(segQ)}
  /\ SubSeq(segQ', 1, Len(segQ) - 1) = Tail(segQ)
  /\ segQ' # segQ

\* The segments the served claim returned: those a worker starts to
\* translate in this step.
Returned ==
  {w.seg.id : w \in {v \in BagToSet(net') : CopiesIn(v, net') > CopiesIn(v, net)}}

Has(st) == \E i \in DOMAIN segs : segs[i].status = st

\* C32: a claim returns a FAILED segment only when no segment is PENDING,
\* returns nothing exactly when no segment is PENDING or FAILED, and never
\* returns a TRANSLATING, TRANSLATED or SKIPPED segment; the segment it
\* returns is the one it marks TRANSLATING, and no other segment changes.
C32_ClaimPrefersPending ==
  [][ClaimServed =>
       /\ Cardinality(Returned) <= 1
       /\ Returned = {} <=> ~Has("PENDING") /\ ~Has("FAILED")
       /\ \A i \in Returned :
            /\ segs[i].status \in {"PENDING", "FAILED"}
            /\ segs[i].status = "FAILED" => ~Has("PENDING")
            /\ segs'[i].status = "TRANSLATING"
       /\ \A i \in DOMAIN segs \ Returned : segs'[i] = segs[i]
    ]_vars

\* C32 witness: a worker holds a segment it claimed as FAILED while the
\* other segments are TRANSLATING, TRANSLATED or SKIPPED.
C32_Witness ==
  \E w \in BagToSet(net) :
    /\ w.seg.retryCount >= 1
    /\ segs[w.seg.id].status = "TRANSLATING"
    /\ \E j \in DOMAIN segs : segs[j].status \in {"TRANSLATED", "SKIPPED"}

InSegment(e) == UNION {Range(e.segments[k]) : k \in DOMAIN e.segments}

\* The parent of a node of the parsed document.
parentNode(n) == IF n % 10 = 0 THEN BODY ELSE 10 * (n \div 10)

\* The text nodes of the document with text that is not white space.
TextNodes(e) ==
  {n \in UNION {Range(childNodesOf(e.items)[p]) : p \in NodeIds} :
     node(e, n).tag = "#text" /\ node(e, n).text}

\* Those that lie outside any captured block.
OrphanText(e) == {n \in TextNodes(e) : parentNode(n) \notin InSegment(e)}

\* C34 as stated: every text node with text that is not white space and
\* that lies outside any captured block is in a segment under schema
\* version 2 and in no segment under version 1.
C34_OrphanTextV2Only ==
  epub.pc = "segmented" =>
    \A n \in OrphanText(epub) :
      /\ epub.version = 2 => n \in InSegment(epub)
      /\ epub.version = 1 => n \notin InSegment(epub)

\* C34: every text node with text that is not white space and that lies
\* outside any captured block and outside any breaker element is in a
\* segment under schema version 2 and in no segment under version 1; a text
\* node inside a breaker element is in no segment under either version.
C34_OrphanTextOutsideBreakers ==
  epub.pc = "segmented" =>
    \A n \in OrphanText(epub) :
      IF node(epub, parentNode(n)).tag \in BREAKER_TAGS
        THEN n \notin InSegment(epub)
        ELSE /\ epub.version = 2 => n \in InSegment(epub)
             /\ epub.version = 1 => n \notin InSegment(epub)

\* C34 witness: a version-2 walk has returned for a div that holds a text
\* and a paragraph, followed by preformatted text: the text of the div is in
\* a segment with the paragraph, the preformatted text in none.
C34_Witness ==
  /\ epub.pc = "segmented" /\ epub.version = 2
  /\ Len(epub.items) = 2
  /\ epub.items[1].tag = "div" /\ epub.items[2].tag = "pre"
  /\ epub.segments = <<(<<11, 12>>)>>
  /\ node(epub, 11).tag = "#text" /\ node(epub, 12).tag = "p"
  /\ OrphanText(epub) = {11, 21}

\* ------------------------------------------------------ the model requests
\* Characters of a fragment and of an answer in the calls below.
MaxReplyLen == 2

\* The model translateHtml asks.
MODEL == "gemini-3-flash-preview"

RequestTimedOut == "Request timed out"
TooManyRequests == "429"

\* How a generateContent request raced against the timeout ends: the model
\* answers with text, the timeout fires first, or the request is rejected
\* for quota (status 429).
Replies ==
  {[kind |-> "text", text |-> s] : s \in Strings(TextChars, MaxReplyLen)}
    \cup {[kind |-> "timeout", text |-> <<>>], [kind |-> "quota", text |-> <<>>]}

\* A call of geminiService.translateHtml from the request to the return or
\* the throw: one generateContent request to MODEL; whatever is thrown in
\* the try block is logged and thrown again.
translateHtmlRequest ==
  /\ call = NoCall
  /\ \E html \in Strings(HtmlChars, MaxReplyLen), reply \in Replies :
       call' = [pc |-> "done", html |-> html, text |-> reply.text,
                reply |-> reply.kind, requests |-> <<MODEL>>,
                result |-> IF reply.kind = "timeout"
                             THEN [ok |-> FALSE, value |-> <<>>, error |-> RequestTimedOut]
                           ELSE IF reply.kind = "quota"
                             THEN [ok |-> FALSE, value |-> <<>>, error |-> TooManyRequests]
                           ELSE translateHtml(html, reply.text)]
  /\ UNCHANGED <<appState, rendered, processingRef, activeWorkers, isQuotaHit,
                 net, segQ, projQ, segs, project, toggles, quotas, attempts,
                 quotaSeg, resumed, reloads, edit, upload, bundle, epub, logs>>

NextRequest == translateHtmlRequest

SpecRequest == Init /\ [][NextRequest]_vars

\* C35: a call that ends with an error that is not a quota error (timeout,
\* empty response, integrity mismatch) has asked a further model before it
\* reports the failure; a call that ends with a quota error has asked one
\* model only.
C35_NextModelTried ==
  call.pc = "done" /\ ~call.result.ok =>
    IF call.result.error = TooManyRequests
      THEN Len(call.requests) = 1
      ELSE Len(call.requests) > 1

\* ------------------------------------------------------- what COMPLETED means
\* C36: whenever the engine state is COMPLETED the store holds at least one
\* segment and every segment in it is TRANSLATED, whether the last worker
\* set the state from the statistics or loadProject set it from the
\* counters of the project record.
C36_CompletedMeansAllTranslated ==
  appState = "COMPLETED" =>
    /\ segs # <<>>
    /\ \A i \in DOMAIN segs : segs[i].status = "TRANSLATED"

\* ------------------------------------------------- what a manual edit writes
\* C37: the store write of a manual edit changes only the translated text of
\* the edited segment: every segment keeps its status and its retryCount in
\* that step, also when a worker claimed, completed or failed the segment
\* between the keystroke and the write; and the count the edit then writes
\* into the project record never lowers it.
C37_EditWritesTextOnly ==
  [][/\ EditPut =>
          \A i \in DOMAIN segs :
            /\ segs'[i].status = segs[i].status
            /\ segs'[i].retryCount = segs[i].retryCount
     /\ EditPutProject => project'.translatedSegments >= project.translatedSegments
    ]_vars

\* ------------------------------------------------------- a failed import
\* C38: an import that fails in parseAndSegment (no container, no package
\* document, no segment) leaves the engine in ERROR and the store empty: the
\* project and the segments stored before were cleared before the parse
\* and nothing is stored in their place.
C38_FailedImportLeavesEmptyStore ==
  [][ImpParseFails =>
       /\ appState' = "ERROR"
       /\ segs' = <<>>
       /\ ~project'.present]_vars

====
